---- MODULE Spec2Model ----
(***************************************************************************)
(* WebResearcher: the iterative agent loop (WebResearcherAgent.run), its   *)
(* output parser, and the web UI's session orchestrator (SessionManager,   *)
(* SessionState, the SSE stream).                                          *)
(*                                                                         *)
(* Text is a sequence of symbols; " " is the whitespace symbol.  A fixed   *)
(* message of the program is the one-symbol text Lit("...").  An LLM       *)
(* response is the sequence of its tagged blocks in textual order; a block *)
(* records its tag, its body and whether its opening tag stands at the     *)
(* start of a line (only whitespace between a line start and the tag).     *)
(*                                                                         *)
(* An action is what one coroutine does between two suspension points      *)
(* (an LLM request, a tool execution, the history-file write).             *)
(***************************************************************************)
EXTENDS Integers, Sequences, FiniteSets, TLC

\* ------------------------------------------------------------- bounds
\* largest MAX_LLM_CALL_PER_RUN (an environment setting) that is explored
MaxCalls == 2
\* largest number of native tool calls in one LLM response
MaxToolCalls == 2
\* number of questions submitted to the session
MaxSubmits == 2

\* ------------------------------------------------------------- text
WS == {" "}

Lit(s) == <<s>>

RECURSIVE LStrip(_)
LStrip(s) == IF s # <<>> /\ Head(s) \in WS THEN LStrip(Tail(s)) ELSE s

RECURSIVE RStrip(_)
RStrip(s) ==
  IF s # <<>> /\ s[Len(s)] \in WS THEN RStrip(SubSeq(s, 1, Len(s) - 1)) ELSE s

\* str.strip()
Strip(s) == RStrip(LStrip(s))

Blk(tag, body, bol) == [tag |-> tag, body |-> body, bol |-> bol]

\* re.findall(r"^\s*<tag>(.*?)</tag>", text, DOTALL | MULTILINE): the bodies
\* of the blocks of that tag whose opening tag is at a line start, in order
RECURSIVE Matches(_, _)
Matches(text, tag) ==
  IF text = <<>> THEN <<>>
  ELSE IF Head(text).tag = tag /\ Head(text).bol
       THEN <<Head(text).body>> \o Matches(Tail(text), tag)
       ELSE Matches(Tail(text), tag)

\* for m in reversed(matches): if m and m.strip(): return m.strip()
RECURSIVE LastNonEmpty(_)
LastNonEmpty(ms) ==
  IF ms = <<>> THEN <<>>
  ELSE IF Strip(ms[Len(ms)]) # <<>> THEN Strip(ms[Len(ms)])
       ELSE LastNonEmpty(SubSeq(ms, 1, Len(ms) - 1))

ExtractLastBlock(text, tag) == LastNonEmpty(Matches(text, tag))

\* WebResearcherAgent.parse_output
ParseOutput(text) ==
  [plan |-> ExtractLastBlock(text, "plan"),
   report |-> ExtractLastBlock(text, "report"),
   tool_call |-> ExtractLastBlock(text, "tool_call"),
   answer |-> ExtractLastBlock(text, "answer"),
   terminate |-> ExtractLastBlock(text, "terminate") # <<>>,
   terminate_reason |-> ExtractLastBlock(text, "terminate")]

\* ------------------------------------------------------------- agent loop
\* TOOL_MAP: the tools registered at import
TOOL_MAP == {"parse_file", "google_scholar", "visit", "search", "python"}

\* ResearchRound.__init__: R_0 and O_0
InitReport == Lit("This is the first round. The report is empty.")
InitObservation == Lit("This is the first round. No tool has been called yet.")

Ev(type, round, text) == [type |-> type, round |-> round, text |-> text]

NoResult ==
  [question |-> <<>>, prediction |-> <<>>, report |-> <<>>,
   termination |-> "", trajectory |-> <<>>]

\* a WebResearcherAgent after construction, run() not yet called
AgentNew(rmax, xml) ==
  [pc |-> "new", rmax |-> rmax, xml |-> xml, question |-> <<>>,
   round_num |-> 0, avail |-> 0,
   current_report |-> <<>>, last_observation |-> <<>>,
   prediction |-> <<>>, termination |-> "",
   content |-> <<>>, forced_content |-> <<>>, is_last_call |-> FALSE, action_content |-> <<>>,
   pending |-> <<>>, tool_results |-> <<>>, over_limit |-> FALSE,
   trajectory |-> <<>>, log |-> <<>>,
   llm_calls |-> 0, executed |-> <<>>, result |-> NoResult,
   function_list |-> TOOL_MAP]

\* __init__: function_list or list(TOOL_MAP.keys())
WithFunctionList(a, function_list) ==
  [a EXCEPT !.function_list =
     IF function_list = {} THEN TOOL_MAP ELSE function_list]

\* emit(): hand one event to progress_callback
Emit(a, ev) == [a EXCEPT !.log = Append(@, ev)]

\* faulty variant of Finalize: the fallbacks for a run that ends without a
\* prediction are left out
FinalizeNoFallback(a) ==
  [Emit(a, Ev("status", 0, a.prediction)) EXCEPT
     !.pc = "done",
     !.result = [question |-> a.question, prediction |-> a.prediction,
                 report |-> a.current_report, termination |-> a.termination,
                 trajectory |-> a.trajectory]]

\* the part of run() after the loop: fallbacks, result bundle, status event
Finalize(a) ==
  LET p == IF a.prediction # <<>> THEN a.prediction
           ELSE IF Strip(a.current_report) # <<>> THEN Strip(a.current_report)
           ELSE IF a.avail = 0
                THEN Lit("No answer found (exceeded available LLM calls).")
                ELSE Lit("No answer found.")
      t == IF a.prediction # <<>> THEN a.termination
           ELSE IF Strip(a.current_report) # <<>>
                THEN (IF a.termination = "" THEN "report fallback" ELSE a.termination)
           ELSE IF a.avail = 0 THEN "exceed available llm calls"
                ELSE "answer not found"
      b == [a EXCEPT !.prediction = p, !.termination = t]
  IN  [Emit(b, Ev("status", 0, p)) EXCEPT
         !.pc = "done",
         !.result = [question |-> a.question, prediction |-> p,
                     report |-> a.current_report, termination |-> t,
                     trajectory |-> a.trajectory]]

\* faulty variant of LoopTop: the deadline is not looked at
LoopTopNoDeadline(a, timedOut) ==
  IF a.avail > 0
  THEN [a EXCEPT !.round_num = @ + 1, !.avail = @ - 1,
                 !.trajectory = IF a.round_num + 1 = 1
                                THEN @ \o <<"system", "user">> ELSE @,
                 !.is_last_call = (a.avail - 1 = 0),
                 !.llm_calls = @ + 1,
                 !.content = <<>>, !.action_content = <<>>,
                 !.tool_results = <<>>,
                 !.pc = "await_llm"]
  ELSE Finalize(a)

\* faulty variant of LoopTop: the round does not use up the budget
LoopTopNoDecrement(a, timedOut) ==
  IF a.avail > 0
  THEN IF timedOut
       THEN Finalize([a EXCEPT !.termination = "timeout",
                               !.prediction = Lit("No answer found (timeout).")])
       ELSE [a EXCEPT !.round_num = @ + 1,
                      !.trajectory = IF a.round_num + 1 = 1
                                     THEN @ \o <<"system", "user">> ELSE @,
                      !.is_last_call = (a.avail - 1 = 0),
                      !.llm_calls = @ + 1,
                      !.content = <<>>, !.action_content = <<>>,
                      !.tool_results = <<>>,
                      !.pc = "await_llm"]
  ELSE Finalize(a)

\* faulty variant of LoopTop: on timeout the report is returned as prediction
LoopTopTimeoutReport(a, timedOut) ==
  IF a.avail > 0
  THEN IF timedOut
       THEN Finalize([a EXCEPT !.termination = "timeout",
                               !.prediction = Strip(a.current_report)])
       ELSE [a EXCEPT !.round_num = @ + 1, !.avail = @ - 1,
                      !.trajectory = IF a.round_num + 1 = 1
                                     THEN @ \o <<"system", "user">> ELSE @,
                      !.is_last_call = (a.avail - 1 = 0),
                      !.llm_calls = @ + 1,
                      !.content = <<>>, !.action_content = <<>>,
                      !.tool_results = <<>>,
                      !.pc = "await_llm"]
  ELSE Finalize(a)

\* the head of the while loop: budget test, deadline test, round bookkeeping,
\* up to the request sent to the LLM
LoopTop(a, timedOut) ==
  IF a.avail > 0
  THEN IF timedOut
       THEN Finalize([a EXCEPT !.termination = "timeout",
                               !.prediction = Lit("No answer found (timeout).")])
       ELSE [a EXCEPT !.round_num = @ + 1, !.avail = @ - 1,
                      !.trajectory = IF a.round_num + 1 = 1
                                     THEN @ \o <<"system", "user">> ELSE @,
                      !.is_last_call = (a.avail - 1 = 0),
                      !.llm_calls = @ + 1,
                      \* locals of the previous round, dead from here on
                      !.content = <<>>, !.action_content = <<>>,
                      !.tool_results = <<>>,
                      !.pc = "await_llm"]
  ELSE Finalize(a)

\* run() from its call to the first suspension
RunStart(a, question, timedOut) ==
  LoopTop([a EXCEPT !.question = question,
                    !.current_report = InitReport,
                    !.last_observation = InitObservation,
                    !.trajectory = <<>>, !.prediction = <<>>,
                    !.termination = "", !.avail = a.rmax, !.round_num = 0],
          timedOut)

\* "<code>" in tool_call_str and "</code>" in tool_call_str
HasCode(body) ==
  /\ \E i \in 1..Len(body) : body[i] = "<code>"
  /\ \E i \in 1..Len(body) : body[i] = "</code>"

\* faulty variant of _execute_xml_tool: a failure is reported with the
\* message of _execute_function_call
ExecuteXmlToolFcMessage(body, out) ==
  IF HasCode(body) \/ Head(body) \notin TOOL_MAP \/ Head(body) = "{bad"
  THEN [result |-> Lit("Error: Tool execution failed."), ran |-> <<>>]
  ELSE [result |-> IF out.raises THEN Lit("Error: Tool execution failed.")
                   ELSE out.text,
        ran |-> <<Head(body)>>]

\* faulty variant of _execute_xml_tool: a registered tool is run a second
\* time after its first run
ExecuteXmlToolTwice(body, out) ==
  IF HasCode(body) \/ Head(body) \notin TOOL_MAP \/ Head(body) = "{bad"
  THEN [result |-> Lit("Error: Tool call failed. Input: ") \o body, ran |-> <<>>]
  ELSE [result |-> out.text, ran |-> <<Head(body), Head(body)>>]

\* _execute_xml_tool: the result string and the tools whose call() was run.
\* A tool_call body that is JSON starts with the tool's name ("{bad": json5
\* cannot read it) followed by its arguments; out is what the tool does.
ExecuteXmlTool(body, out) ==
  LET failed == Lit("Error: Tool call failed. Input: ") \o body
  IN  IF HasCode(body)
      THEN [result |-> IF out.raises THEN failed ELSE out.text, ran |-> <<"python">>]
      ELSE IF Head(body) = "{bad" THEN [result |-> failed, ran |-> <<>>]
      ELSE IF Head(body) \notin TOOL_MAP
           THEN [result |-> Lit("Error: Tool ") \o <<Head(body)>> \o Lit(" not found"),
                 ran |-> <<>>]
      ELSE IF Head(body) = "python" /\ Len(body) = 1
           THEN [result |-> Lit("[Python Interpreter Error]: Empty code."),
                 ran |-> <<>>]
      ELSE [result |-> IF out.raises THEN failed ELSE out.text,
            ran |-> <<Head(body)>>]

\* _execute_function_call on one native tool call [name, args]
ExecuteFunctionCall(call, out) ==
  IF call.name \notin TOOL_MAP
  THEN [result |-> Lit("Error: Tool ") \o <<call.name>> \o Lit(" not found"), ran |-> <<>>]
  ELSE IF call.args = "{bad"
       THEN [result |-> Lit("Error: Failed to decode arguments"), ran |-> <<>>]
  ELSE IF call.name = "python" /\ call.args = "{}"
       THEN [result |-> Lit("[Python Interpreter Error]: Empty code."),
             ran |-> <<>>]
  ELSE [result |-> IF out.raises THEN Lit("Error: Tool execution failed.")
                   ELSE out.text,
        ran |-> <<call.name>>]

\* "\n\n".join(tool_results)
RECURSIVE Join(_)
Join(rs) ==
  IF rs = <<>> THEN <<>>
  ELSE IF Len(rs) = 1 THEN rs[1]
  ELSE rs[1] \o <<"\n\n">> \o Join(Tail(rs))

\* the tools run when round r of agent a finished (or so far, if it has not)
RanInRound(a, r) == {i \in 1..Len(a.executed) : a.executed[i].round = r}

RecordRun(a, ran) ==
  [a EXCEPT !.executed =
     @ \o [i \in 1..Len(ran) |-> [round |-> a.round_num, tool |-> ran[i]]]]

\* faulty variant of UpdateReport: an absent report block empties the report
UpdateReportAlways(cur, report) == report

\* R_i: the report block replaces the report when it is there
UpdateReport(cur, report) == IF report # <<>> THEN report ELSE cur

\* faulty variant of ProcessParsed: the terminate flag is looked at before
\* the answer
ProcessParsedTerminateFirst(a, parsed) ==
  LET a1 == Emit(a, Ev("round", a.round_num, parsed.report))
      a2 == [a1 EXCEPT !.current_report = UpdateReport(@, parsed.report)]
      report == Strip(a2.current_report)
  IN  IF parsed.terminate
      THEN LET p == IF parsed.terminate_reason # <<>>
                    THEN parsed.terminate_reason ELSE report
           IN  Finalize(Emit([a2 EXCEPT !.prediction = p,
                                        !.termination = "terminated by llm"],
                             Ev("final", a.round_num, p)))
      ELSE IF parsed.answer # <<>>
      THEN Finalize(Emit([a2 EXCEPT !.prediction = parsed.answer,
                                    !.termination = "answer found"],
                         Ev("final", a.round_num, parsed.answer)))
      ELSE IF a.is_last_call
      THEN Finalize(Emit([a2 EXCEPT !.prediction = report,
                                    !.termination = "finalized without answer tag"],
                         Ev("final", a.round_num, report)))
      ELSE IF parsed.tool_call # <<>>
      THEN [a2 EXCEPT !.pc = "await_tool", !.action_content = parsed.tool_call]
      ELSE [a2 EXCEPT !.pc = "await_forced", !.llm_calls = @ + 1]

\* faulty variant of ProcessParsed: the tool_call block is acted on before
\* the last-round test
ProcessParsedToolOnLast(a, parsed) ==
  LET a1 == Emit(a, Ev("round", a.round_num, parsed.report))
      a2 == [a1 EXCEPT !.current_report = UpdateReport(@, parsed.report)]
      report == Strip(a2.current_report)
  IN  IF parsed.answer # <<>>
      THEN LET t == IF parsed.terminate THEN "terminate with answer"
                    ELSE "answer found"
           IN  Finalize(Emit([a2 EXCEPT !.prediction = parsed.answer,
                                        !.termination = t],
                             Ev("final", a.round_num, parsed.answer)))
      ELSE IF parsed.terminate
      THEN Finalize(Emit([a2 EXCEPT !.prediction = parsed.terminate_reason,
                                    !.termination = "terminated by llm"],
                         Ev("final", a.round_num, parsed.terminate_reason)))
      ELSE IF parsed.tool_call # <<>>
      THEN [a2 EXCEPT !.pc = "await_tool", !.action_content = parsed.tool_call]
      ELSE IF a.is_last_call
      THEN Finalize(Emit([a2 EXCEPT !.prediction = report,
                                    !.termination = "finalized without answer tag"],
                         Ev("final", a.round_num, report)))
      ELSE [a2 EXCEPT !.pc = "await_forced", !.llm_calls = @ + 1]

\* the textual path of a round, from the parsed response to the next
\* suspension (tool execution, forced call) or to the return
ProcessParsed(a, parsed) ==
  LET a1 == Emit(a, Ev("round", a.round_num, parsed.report))
      a2 == [a1 EXCEPT !.current_report = UpdateReport(@, parsed.report)]
      report == Strip(a2.current_report)
  IN  IF parsed.answer # <<>>
      THEN LET t == IF parsed.terminate THEN "terminate with answer"
                    ELSE "answer found"
           IN  Finalize(Emit([a2 EXCEPT !.prediction = parsed.answer,
                                        !.termination = t],
                             Ev("final", a.round_num, parsed.answer)))
      ELSE IF parsed.terminate
      THEN LET p == IF parsed.terminate_reason # <<>>
                    THEN parsed.terminate_reason ELSE report
           IN  Finalize(Emit([a2 EXCEPT !.prediction = p,
                                        !.termination = "terminated by llm"],
                             Ev("final", a.round_num, p)))
      ELSE IF a.is_last_call
      THEN LET src == IF report # <<>> THEN report ELSE parsed.terminate_reason
               p == IF src # <<>> THEN src ELSE a2.last_observation
           IN  Finalize(Emit([a2 EXCEPT !.prediction = p,
                                        !.termination = "finalized without answer tag"],
                             Ev("final", a.round_num, p)))
      ELSE IF parsed.tool_call # <<>>
      THEN [a2 EXCEPT !.pc = "await_tool", !.action_content = parsed.tool_call]
      ELSE [a2 EXCEPT !.pc = "await_forced", !.llm_calls = @ + 1]

\* one round from the LLM response to the next suspension or the return.
\* resp.bad: handling the response raised inside the try block.
ProcessResponse(a, resp) ==
  IF resp.bad
  THEN Finalize([a EXCEPT !.prediction = Lit("Error: Unknown"),
                          !.termination = "unknown error"])
  ELSE LET a0 == IF resp.reasoning
                 THEN Emit(a, Ev("thinking", a.round_num, <<>>)) ELSE a
           a1 == [a0 EXCEPT !.content = resp.content,
                            !.trajectory = Append(@, "assistant")]
       IN  IF ~a.xml /\ resp.tool_calls # <<>>
           THEN [a1 EXCEPT !.pc = "await_fc_tool",
                           !.pending = resp.tool_calls,
                           !.tool_results = <<>>]
           ELSE ProcessParsed(a1, ParseOutput(resp.content))

\* native mode: one tool call of the response has been executed; after the
\* last one the observation, the report and a possible answer are taken.
\* overLimit: the prompt sent in this round counts more tokens than
\* max_input_tokens (this path does not count them).
FunctionCallDone(a, out, overLimit, timedOut) ==
  LET r == ExecuteFunctionCall(Head(a.pending), out)
      a1 == Emit(RecordRun(a, r.ran), Ev("tool", a.round_num, r.result))
      a2 == [a1 EXCEPT !.pending = Tail(@),
                       !.tool_results = Append(@, r.result)]
  IN  IF a2.pending # <<>> THEN a2
      ELSE LET a3 == [a2 EXCEPT !.last_observation = Join(a2.tool_results),
                                !.over_limit = overLimit]
               parsed == ParseOutput(a.content)
               a4 == [a3 EXCEPT !.current_report = UpdateReport(@, parsed.report)]
           IN  IF a.content = <<>> THEN LoopTop(a3, timedOut)
               ELSE IF parsed.answer # <<>>
               THEN Finalize(Emit([a4 EXCEPT !.prediction = parsed.answer,
                                             !.termination = "answer found"],
                                  Ev("final", a.round_num, parsed.answer)))
               ELSE LoopTop(a4, timedOut)

\* faulty variant of ToolDone: the failure event is emitted after the tool
\* event as well
ToolDoneTwoEvents(a, out, overLimit, timedOut) ==
  LET r == ExecuteXmlTool(a.action_content, out)
      a1 == [RecordRun(a, r.ran) EXCEPT !.last_observation = r.result,
                                        !.over_limit = overLimit]
      a2 == [Emit(Emit(a1, Ev("tool", a.round_num, r.result)),
                  Ev("tool_error", a.round_num, r.result)) EXCEPT
               !.trajectory = Append(@, "user")]
  IN  IF overLimit
      THEN [a2 EXCEPT !.pc = "await_token_forced", !.llm_calls = @ + 1]
      ELSE LoopTop(a2, timedOut)

\* textual mode: the tool of the round has been executed; then the token test
ToolDone(a, out, overLimit, timedOut) ==
  LET r == ExecuteXmlTool(a.action_content, out)
      a1 == [RecordRun(a, r.ran) EXCEPT !.last_observation = r.result,
                                        !.over_limit = overLimit]
      a2 == [Emit(a1, Ev("tool", a.round_num, r.result)) EXCEPT
               !.trajectory = Append(@, "user")]
  IN  IF overLimit
      THEN [a2 EXCEPT !.pc = "await_token_forced", !.llm_calls = @ + 1]
      ELSE LoopTop(a2, timedOut)

\* faulty variant of ForcedDone: a forced call without an answer goes on to
\* the next round
ForcedDoneContinues(a, resp) ==
  LET parsed == ParseOutput(resp.content)
  IN  IF parsed.answer # <<>>
      THEN Finalize([Emit([a EXCEPT !.forced_content = resp.content,
                                    !.prediction = parsed.answer,
                                    !.termination = "answer (forced)"],
                          Ev("final", a.round_num, parsed.answer))
                     EXCEPT !.trajectory = Append(@, "assistant")])
      ELSE LoopTop([a EXCEPT !.forced_content = resp.content], FALSE)

\* the answer to the forced call after a response without any action
ForcedDone(a, resp) ==
  LET parsed == ParseOutput(resp.content)
  IN  IF parsed.answer # <<>>
      THEN Finalize([Emit([a EXCEPT !.forced_content = resp.content,
                                    !.prediction = parsed.answer,
                                    !.termination = "answer (forced)"],
                          Ev("final", a.round_num, parsed.answer))
                     EXCEPT !.trajectory = Append(@, "assistant")])
      ELSE Finalize([a EXCEPT
             !.forced_content = resp.content,
             !.prediction = Lit("No answer found (format error after retry)."),
             !.termination = "format error"])

\* the answer to the forced call after the prompt exceeded the token limit
TokenForcedDone(a, resp) ==
  LET parsed == ParseOutput(resp.content)
      p == IF parsed.answer # <<>> THEN parsed.answer
           ELSE Lit("No answer found (token limit).")
  IN  Finalize([Emit([a EXCEPT !.forced_content = resp.content,
                               !.content = resp.content,
                               !.prediction = p,
                               !.termination = "token limit reached"],
                     Ev("final", a.round_num, p))
                EXCEPT !.trajectory = Append(@, "assistant")])

\* ------------------------------------------------------------- inputs
\* what a tool does when it is run: it raises, or returns a string
ToolOutcomes ==
  {[raises |-> TRUE, text |-> <<>>],
   [raises |-> FALSE, text |-> <<>>],
   [raises |-> FALSE, text |-> <<"o">>]}

\* blocks of LLM texts
Report(body) == Blk("report", body, TRUE)
ToolCall(body) == Blk("tool_call", body, TRUE)
Answer(body) == Blk("answer", body, TRUE)
Terminate(body) == Blk("terminate", body, TRUE)

\* plan, report and answer one after another on one line: only the plan's
\* opening tag stands at a line start
OneLineAnswer ==
  <<Blk("plan", <<"p">>, TRUE), Blk("report", <<"Paris is the capital.">>, FALSE),
    Blk("answer", <<"Paris">>, FALSE)>>

\* the LLM texts explored: every way the round can go, with reports that
\* differ, bodies that need stripping, an empty terminate body, an unknown
\* tool, and an answer whose opening tag is not at a line start
Texts ==
  {<<>>,
   <<Report(<<"r">>)>>,
   <<Report(<<"r">>), ToolCall(<<"search", "q">>)>>,
   <<ToolCall(<<"search", "q">>)>>,
   <<Report(<<" ", "s">>), ToolCall(<<"nope">>)>>,
   <<Report(<<"r">>), Answer(<<"a", " ">>)>>,
   <<Answer(<<"a">>)>>,
   <<Report(<<" ", "s">>), ToolCall(<<"search", "q">>), Answer(<<"a">>),
     Terminate(<<"t">>)>>,
   <<ToolCall(<<"search", "q">>), Answer(<<"a">>)>>,
   <<Report(<<"r">>), Blk("answer", <<"a">>, FALSE)>>,
   OneLineAnswer,
   <<Report(<<"r">>), Terminate(<<>>)>>,
   <<Report(<<" ", "s">>), Terminate(<<"t">>)>>,
   <<ToolCall(<<"search", "q">>), Terminate(<<" ", "t">>)>>}

\* the texts that come with native tool calls
NativeTexts ==
  {<<>>,
   <<Report(<<"r">>)>>,
   <<Report(<<"r">>), Answer(<<"a", " ">>)>>,
   <<Report(<<" ", "s">>), ToolCall(<<"search", "q">>), Answer(<<"a">>),
     Terminate(<<"t">>)>>}

NativeCall(name) == [name |-> name, args |-> "{q}"]

\* the lists of native tool calls explored: one unknown tool, or up to
\* MaxToolCalls calls of a registered one
NativeCallLists ==
  {<<NativeCall("nope")>>}
  \cup {[i \in 1..n |-> NativeCall("search")] : n \in 1..MaxToolCalls}

\* what a native tool does when it is run
NativeOutcomes ==
  {[raises |-> TRUE, text |-> <<>>], [raises |-> FALSE, text |-> <<"o">>]}

Resp(content, reasoning, tool_calls, bad) ==
  [content |-> content, reasoning |-> reasoning,
   tool_calls |-> tool_calls, bad |-> bad]

\* what call_server can hand to a round of an agent in the given mode
Responses(xml) ==
  {Resp(c, th, <<>>, FALSE) : c \in Texts, th \in IF xml THEN BOOLEAN ELSE {FALSE}}
  \cup {Resp(<<>>, FALSE, <<>>, TRUE)}
  \cup IF xml THEN {}
       ELSE {Resp(c, FALSE, tc, FALSE) : c \in NativeTexts, tc \in NativeCallLists}

\* what a forced call can return: no tools are offered
ForcedResponses == {Resp(c, FALSE, <<>>, FALSE) : c \in Texts}

\* after the tools of a round have run: is the prompt sent in the round
\* over the token limit, and is the deadline passed at the next loop head
Limits == [overLimit : BOOLEAN, timedOut : BOOLEAN]

SessionLimits == {l \in Limits : ~(l.overLimit /\ l.timedOut)}

\* what the LLM answers to the agents the session runs (textual mode)
SessionTexts ==
  {<<>>,
   <<Report(<<"r">>), ToolCall(<<"search", "q">>)>>,
   <<Report(<<"r">>), Answer(<<"a", " ">>)>>}

SessionResponses == {Resp(c, FALSE, <<>>, FALSE) : c \in SessionTexts}

SessionForcedResponses ==
  {Resp(c, FALSE, <<>>, FALSE) : c \in {<<>>, <<Answer(<<"a">>)>>}}

SessionToolOutcomes == {[raises |-> FALSE, text |-> <<"o">>]}

\* ------------------------------------------------------------- session
\* ConversationTurn.__init__; task_id: the ordinal of the turn's creation
NewTurn(id, question, status) ==
  [task_id |-> id, question |-> question, answer |-> <<>>, status |-> status,
   events |-> <<>>, result |-> NoResult, error |-> "",
   rounds |-> <<>>, tools |-> <<>>]

\* ConversationTurn.add_process_round: the entry of the round is updated
\* when it exists and appended when it does not
AddProcessRound(rounds, round, report) ==
  IF \E i \in 1..Len(rounds) : rounds[i].round = round
  THEN [i \in 1..Len(rounds) |->
          IF rounds[i].round = round /\ report # <<>>
             /\ \A j \in 1..(i - 1) : rounds[j].round # round
          THEN [rounds[i] EXCEPT !.report = report] ELSE rounds[i]]
  ELSE Append(rounds, [round |-> round, report |-> report])

\* ConversationTurn.add_process_tool
AddProcessTool(tools, round, observation, is_error) ==
  Append(tools, [round |-> round, observation |-> observation,
                 is_error |-> is_error])

\* SessionState.add_turn on the session s = [turns, current]
AddTurn(s, question) ==
  [turns |-> Append(s.turns,
                    NewTurn(Len(s.turns) + 1, question, "running")),
   current |-> Len(s.turns) + 1]

\* SessionState.add_event: the event goes to the log of _current_turn
AddEvent(s, ev) ==
  IF s.current = 0 THEN s
  ELSE LET turn == s.turns[s.current]
           t1 == [turn EXCEPT !.events = Append(@, ev)]
           t2 == IF ev.type = "round"
                 THEN [t1 EXCEPT !.rounds = AddProcessRound(@, ev.round, ev.text)]
                 ELSE IF ev.type \in {"tool", "tool_error"}
                 THEN [t1 EXCEPT !.tools = AddProcessTool(@, ev.round, ev.text,
                                                          ev.type = "tool_error")]
                 ELSE t1
       IN  [s EXCEPT !.turns[s.current] = t2]

RECURSIVE AddEvents(_, _)
AddEvents(s, evs) ==
  IF evs = <<>> THEN s ELSE AddEvents(AddEvent(s, Head(evs)), Tail(evs))

\* SessionState.finish_turn: answer, result, error and status of _current_turn
FinishTurn(s, answer, result, error) ==
  IF s.current = 0 THEN s
  ELSE [s EXCEPT !.turns[s.current] =
          [@ EXCEPT !.answer = answer, !.result = result, !.error = error,
                    !.status = IF error = "" THEN "completed" ELSE "failed"]]

\* default of get_history_context(max_turns)
HistoryTurns == 5

\* faulty variant of get_history_context: the oldest max_turns completed
\* turns are taken
HistoryContextOldest(turns) ==
  IF Len(turns) <= 1 THEN <<>>
  ELSE LET done == SelectSeq(SubSeq(turns, 1, Len(turns) - 1),
                             LAMBDA t : t.status = "completed" /\ t.answer # <<>>)
           recent == IF Len(done) > HistoryTurns
                     THEN SubSeq(done, 1, HistoryTurns)
                     ELSE done
       IN  [i \in 1..Len(recent) |->
              [question |-> recent[i].question, answer |-> recent[i].answer]]

\* SessionState.get_history_context: the turns the history block is made of
HistoryContext(turns) ==
  IF Len(turns) <= 1 THEN <<>>
  ELSE LET done == SelectSeq(SubSeq(turns, 1, Len(turns) - 1),
                             LAMBDA t : t.status = "completed" /\ t.answer # <<>>)
           recent == IF Len(done) > HistoryTurns
                     THEN SubSeq(done, Len(done) - HistoryTurns + 1, Len(done))
                     ELSE done
       IN  [i \in 1..Len(recent) |->
              [question |-> recent[i].question, answer |-> recent[i].answer]]

\* ConversationTurn.to_dict(include_process=True)
TurnToDict(turn) ==
  [task_id |-> turn.task_id, question |-> turn.question,
   answer |-> turn.answer, status |-> turn.status, events |-> turn.events,
   result |-> turn.result, error |-> turn.error,
   process |-> [rounds |-> turn.rounds, tools |-> turn.tools]]

\* SessionState.history_record: the record handed to _append_jsonl
HistoryRecord(sid, turns) ==
  [session_id |-> sid,
   turns |-> [i \in 1..Len(turns) |-> TurnToDict(turns[i])],
   first_question |-> IF turns # <<>> THEN turns[1].question ELSE <<>>,
   turn_count |-> Len(turns)]

\* _append_jsonl: the line json.dumps makes of the record when the write
\* runs. The record's turn entries hold the turns' own events and process
\* lists, not copies, so the line carries what these lists hold by then.
DumpRecord(record, turns) ==
  [record EXCEPT !.turns =
     [i \in 1..Len(record.turns) |->
        [record.turns[i] EXCEPT
           !.events = turns[i].events,
           !.process = [rounds |-> turns[i].rounds, tools |-> turns[i].tools]]]]

\* the turn _load_session_from_history rebuilds from one entry of a line
TurnFromDict(d) ==
  [NewTurn(d.task_id, d.question, d.status) EXCEPT
     !.answer = d.answer, !.events = d.events, !.result = d.result,
     !.error = d.error, !.rounds = d.process.rounds, !.tools = d.process.tools]

\* _load_session_from_history: the lines are read from the top and the
\* first one with the session's id is returned; <<>> stands for None
RECURSIVE LoadSessionFromHistory(_, _)
LoadSessionFromHistory(lines, sid) ==
  IF lines = <<>> THEN <<>>
  ELSE IF Head(lines).session_id = sid
       THEN <<[turns |-> [i \in 1..Len(Head(lines).turns) |->
                            TurnFromDict(Head(lines).turns[i])],
               current |-> 0]>>
       ELSE LoadSessionFromHistory(Tail(lines), sid)

\* ------------------------------------------------------------- LLM client
\* the classes with a call_server of their own
Clients == {"researcher", "weaver", "react"}

\* what call_server returns when it gives up
ServerError(kind) ==
  IF kind = "weaver" THEN Lit("Error: LLM server failed after all retries.")
  ELSE Lit("LLM server error.")

\* what one request to the API does: a message with content, a message
\* without, or one of the exceptions (other: any further Exception, such as
\* an empty choices list)
RequestOutcomes == {"ok", "empty", "rate_limit", "auth", "api", "other"}

\* a call of call_server(msgs, max_tries=...) not yet started
NewCall(kind, max_tries) ==
  [kind |-> kind, max_tries |-> max_tries, pc |-> "idle", attempt |-> 0,
   requests |-> 0, seen |-> <<>>, sleep_time |-> 0, content |-> <<>>]

Returned(c, content) == [c EXCEPT !.pc = "returned", !.content = content]

\* the loop of call_server at the head of pass number attempt
Attempt(c, attempt) ==
  IF attempt < c.max_tries
  THEN [c EXCEPT !.pc = "request", !.attempt = attempt, !.requests = @ + 1]
  ELSE Returned(c, ServerError(c.kind))

\* 2 ** n
RECURSIVE Pow2(_)
Pow2(n) == IF n = 0 THEN 1 ELSE 2 * Pow2(n - 1)

\* the end of a pass that did not return: sleep before the next pass, or
\* leave the loop after the last one; jitter: random.uniform(0, 1)
AfterFailure(c, jitter) ==
  IF c.attempt < c.max_tries - 1
  THEN LET t == Pow2(c.attempt) + jitter
       IN  [c EXCEPT !.pc = "sleep", !.sleep_time = IF t < 30 THEN t ELSE 30]
  ELSE Returned(c, ServerError(c.kind))

\* faulty variant of RequestDone: only the API's own exceptions are caught
RequestDoneRaises(c, outcome, jitter) ==
  LET c1 == [c EXCEPT !.seen = Append(@, outcome)]
  IN  IF outcome = "ok" THEN Returned(c1, <<"c">>)
      ELSE IF outcome = "empty" /\ c.kind # "react" THEN Returned(c1, <<>>)
      ELSE IF outcome = "auth" /\ c.kind # "react"
           THEN Returned(c1, ServerError(c.kind))
      ELSE IF outcome = "other" THEN [c1 EXCEPT !.pc = "raised"]
      ELSE AfterFailure(c1, jitter)

\* one pass of the loop of call_server from the answer to its request.
\* WebResearcherAgent and BaseWebWeaverAgent leave the loop on an
\* AuthenticationError; ReactAgent has no handler of its own for it (it is
\* an APIError) and tries again after a message without content.
RequestDone(c, outcome, jitter) ==
  LET c1 == [c EXCEPT !.seen = Append(@, outcome)]
  IN  IF outcome = "ok" THEN Returned(c1, <<"c">>)
      ELSE IF outcome = "empty" /\ c.kind # "react" THEN Returned(c1, <<>>)
      ELSE IF outcome = "auth" /\ c.kind # "react"
           THEN Returned(c1, ServerError(c.kind))
      ELSE AfterFailure(c1, jitter)

\* ------------------------------------------------------------- WebWeaver
\* A JSON object is the sequence of its members in textual order; a value
\* is a string (v has that one element) or a list of strings.
Val(v, list) == [v |-> v, list |-> list]

Member(name, val) == [name |-> name, val |-> val]

\* the member names that occur, in the order sort_keys=True puts them
MemberNames == <<"citation_ids", "query", "top_k">>

MemberRank(name) == CHOOSE i \in 1..Len(MemberNames) : MemberNames[i] = name

RECURSIVE InsertMember(_, _)
InsertMember(m, ms) ==
  IF ms = <<>> THEN <<m>>
  ELSE IF MemberRank(m.name) < MemberRank(Head(ms).name) THEN <<m>> \o ms
  ELSE <<Head(ms)>> \o InsertMember(m, Tail(ms))

\* json.dumps(args, sort_keys=True, ensure_ascii=False)
RECURSIVE CanonJson(_)
CanonJson(ms) ==
  IF ms = <<>> THEN <<>> ELSE InsertMember(Head(ms), CanonJson(Tail(ms)))

\* One tool call as the model writes it: text names its characters, name is
\* the tool, ok says whether the JSON can be read (in a <tool_call> block
\* the whole body, in a native call the arguments string), args is the
\* arguments object.
WCall(text, name, ok, args) ==
  [text |-> text, name |-> name, ok |-> ok, args |-> args]

\* _fix_tool_args: a string is wrapped into a list for query (search,
\* google_scholar), url (visit) and files (parse_file)
FixToolArgs(name, args) ==
  [i \in 1..Len(args) |->
     IF name \in {"search", "google_scholar"} /\ args[i].name = "query"
     THEN Member("query", Val(args[i].val.v, TRUE))
     ELSE args[i]]

\* cache_key = f"{tool_name}::" + json.dumps(tool_args, sort_keys=True, ...)
CacheKey(name, args) == <<name, CanonJson(args)>>

EmptyDict == [k \in {} |-> k]

\* d[k] = v
Put(d, k, v) == [x \in DOMAIN d \cup {k} |-> IF x = k THEN v ELSE d[x]]

\* d.get(k, default)
Get(d, k, default) == IF k \in DOMAIN d THEN d[k] ELSE default

\* what tool.call does: it returns a string or raises
WeaverOutcomes ==
  {[raises |-> FALSE, text |-> <<"r1">>, adds |-> <<>>, lookup |-> FALSE],
   [raises |-> FALSE, text |-> <<"r2">>, adds |-> <<>>, lookup |-> FALSE],
   [raises |-> TRUE, text |-> <<"e1">>, adds |-> <<>>, lookup |-> FALSE]}

\* the names of the citation IDs: IdName(n) is "id_n"
IdNames ==
  <<"id_1", "id_2", "id_3", "id_4", "id_5", "id_6", "id_7", "id_8", "id_9",
    "id_10", "id_11", "id_12", "id_13", "id_14", "id_15", "id_16">>

IdName(n) == IdNames[n]

\* MemoryBank.add_evidence: the bank with the new entry under the next ID
BankAdd(bank, content, summary) ==
  Append(bank, [id |-> IdName(Len(bank) + 1), content |-> content,
                summary |-> summary])

\* the string add_evidence returns for the entry it has just added
AddedObservation(entry) ==
  <<"Evidence added with id='", entry.id, "'. Summary: ", entry.summary>>

\* faulty variant of BankRetrieve: an ID the bank does not hold is passed over
RECURSIVE BankRetrieveSkips(_, _)
BankRetrieveSkips(bank, ids) ==
  IF ids = <<>> THEN <<>>
  ELSE LET hits == {i \in 1..Len(bank) : bank[i].id = Head(ids)}
       IN  (IF hits = {} THEN <<>>
            ELSE LET e == bank[CHOOSE i \in hits : TRUE]
                 IN  <<"id='", e.id, "' ", e.content, "\n">>)
           \o BankRetrieveSkips(bank, Tail(ids))

\* MemoryBank.retrieve: the content of each ID asked for that the bank
\* holds, a line saying "not found" for each that it does not hold
RECURSIVE BankRetrieve(_, _)
BankRetrieve(bank, ids) ==
  IF ids = <<>> THEN <<>>
  ELSE LET hits == {i \in 1..Len(bank) : bank[i].id = Head(ids)}
       IN  (IF hits = {} THEN <<"Citation ID not found: ", Head(ids), "\n">>
            ELSE LET e == bank[CHOOSE i \in hits : TRUE]
                 IN  <<"id='", e.id, "' ", e.content, "\n">>)
           \o BankRetrieve(bank, Tail(ids))

\* RetrieveTool.call: the citation_ids of the arguments are looked up
CitationIds(args) ==
  IF \E i \in 1..Len(args) : args[i].name = "citation_ids"
  THEN args[CHOOSE i \in 1..Len(args) : args[i].name = "citation_ids"].val.v
  ELSE <<>>

\* the planner tools' call() after the base tool has returned: every chunk
\* of evidence found in its output is added to the bank, and the strings
\* add_evidence returns are joined by "\n"
RECURSIVE AddChunks(_, _)
AddChunks(bank, chunks) ==
  IF chunks = <<>> THEN [bank |-> bank, text |-> <<>>]
  ELSE LET b1 == BankAdd(bank, Head(chunks).content, Head(chunks).summary)
           rest == AddChunks(b1, Tail(chunks))
       IN  [bank |-> rest.bank,
            text |-> AddedObservation(b1[Len(b1)])
                       \o (IF Tail(chunks) = <<>> THEN <<>> ELSE <<"\n">>)
                       \o rest.text]

\* faulty variant of CallTool: a planner tool numbers the chunks of each
\* call from 1
CallToolRestarts(w, call, out) ==
  IF out.raises
  THEN [bank |-> w.memory_bank, raises |-> TRUE, text |-> out.text]
  ELSE IF out.lookup
       THEN [bank |-> w.memory_bank, raises |-> FALSE,
             text |-> BankRetrieve(w.memory_bank, CitationIds(call.args))]
  ELSE IF out.adds # <<>>
       THEN LET r == AddChunks(<<>>, out.adds)
            IN  [bank |-> w.memory_bank \o r.bank, raises |-> FALSE, text |-> r.text]
  ELSE [bank |-> w.memory_bank, raises |-> FALSE, text |-> out.text]

\* tool.call(args) of the tool the call names: the bank afterwards and what
\* the call returns or raises.  out says what the tool does: it raises
\* (a planner tool does so before it adds anything), it is the retrieve
\* tool looking the IDs up, it is a planner tool adding the chunks
\* out.adds, or it returns out.text and leaves the bank alone.
CallTool(w, call, out) ==
  IF out.raises
  THEN [bank |-> w.memory_bank, raises |-> TRUE, text |-> out.text]
  ELSE IF out.lookup
       THEN [bank |-> w.memory_bank, raises |-> FALSE,
             text |-> BankRetrieve(w.memory_bank, CitationIds(call.args))]
  ELSE IF out.adds # <<>>
       THEN LET r == AddChunks(w.memory_bank, out.adds)
            IN  [bank |-> r.bank, raises |-> FALSE, text |-> r.text]
  ELSE [bank |-> w.memory_bank, raises |-> FALSE, text |-> out.text]

\* the agent after tool.call was run on key: how often it was run, what its
\* first run gave
Ran(w, key, result) ==
  [w EXCEPT !.runs = Put(@, key, Get(@, key, 0) + 1),
            !.first_results = IF key \in DOMAIN @ THEN @ ELSE Put(@, key, result)]

\* the agent after a dispatch on key returned result
Dispatched(w, key, result) ==
  [w EXCEPT !.dispatches = Put(@, key, Get(@, key, 0) + 1),
            !.returned = Put(@, key, Get(@, key, {}) \cup {result})]

\* the answer to a call of a tool that is not in tool_map
NotFound(xml, name) ==
  IF xml THEN <<"Error: Tool '", name, "' not found in agent's tool map.">>
  ELSE <<"Error: Tool ", name, " not found">>

\* faulty variant of Dispatch: the string of a failed run is stored as well
DispatchCachesFailure(w, xml, call, out) ==
  LET failed == IF xml
                THEN <<"Error: Tool call failed. Input: ", call.text, ". Error: ">>
                       \o out.text
                ELSE <<"Error: Tool execution failed. ">> \o out.text
  IN  IF xml /\ ~call.ok
      THEN [w |-> w, result |-> <<"Error: Tool call failed. Input: ", call.text,
                                   ". Error: ", "json5">>]
      ELSE IF call.name \notin w.tool_map
           THEN [w |-> w, result |-> NotFound(xml, call.name)]
      ELSE IF ~call.ok
           THEN [w |-> w, result |-> <<"Error: Failed to decode arguments: ", call.text>>]
      ELSE LET args == FixToolArgs(call.name, call.args)
               key == CacheKey(call.name, args)
               cached == call.name \in w.cacheable_tools
               t == CallTool(w, call, out)
               result == IF t.raises THEN failed ELSE t.text
               w0 == [w EXCEPT !.memory_bank = t.bank]
           IN  IF cached /\ key \in DOMAIN w.tool_call_cache
               THEN [w |-> Dispatched(w, key, w.tool_call_cache[key]),
                     result |-> w.tool_call_cache[key]]
               ELSE LET w1 == Dispatched(Ran(w0, key, result), key, result)
                    IN  [w |-> IF cached
                               THEN [w1 EXCEPT !.tool_call_cache = Put(@, key, result)]
                               ELSE w1,
                         result |-> result]

\* _execute_xml_tool (xml) and _execute_function_call (~xml) of
\* BaseWebWeaverAgent on one call; out is what tool.call does if it is run.
\* The agent afterwards and the string returned.
Dispatch(w, xml, call, out) ==
  LET failed == IF xml
                THEN <<"Error: Tool call failed. Input: ", call.text, ". Error: ">>
                       \o out.text
                ELSE <<"Error: Tool execution failed. ">> \o out.text
  IN  IF xml /\ ~call.ok
      THEN [w |-> w, result |-> <<"Error: Tool call failed. Input: ", call.text,
                                   ". Error: ", "json5">>]
      ELSE IF call.name \notin w.tool_map
           THEN [w |-> w, result |-> NotFound(xml, call.name)]
      ELSE IF ~call.ok
           THEN [w |-> w, result |-> <<"Error: Failed to decode arguments: ", call.text>>]
      ELSE LET args == FixToolArgs(call.name, call.args)
               key == CacheKey(call.name, args)
               cached == call.name \in w.cacheable_tools
               t == CallTool(w, call, out)
               result == IF t.raises THEN failed ELSE t.text
               w0 == [w EXCEPT !.memory_bank = t.bank]
           IN  IF cached /\ key \in DOMAIN w.tool_call_cache
               THEN [w |-> Dispatched(w, key, w.tool_call_cache[key]),
                     result |-> w.tool_call_cache[key]]
               ELSE LET w1 == Dispatched(Ran(w0, key, result), key, result)
                    IN  [w |-> IF cached /\ ~out.raises
                               THEN [w1 EXCEPT !.tool_call_cache = Put(@, key, result)]
                               ELSE w1,
                         result |-> result]

\* the tool_map of WebWeaverPlanner (no function_list) and WebWeaverWriter
PlannerTools == {"search", "google_scholar", "visit", "python", "parse_file"}
WriterTools == {"retrieve"}

NoCall == WCall("", "", FALSE, <<>>)

InitOutline == Lit("Outline is empty. Start by searching for information.")
PlannerObservation == Lit("No observation yet.")
WriterObservation ==
  Lit("No observation yet. Start by retrieving evidence for the first section.")

\* MAX_IDLE_BEFORE_FORCE_WRITE_HINT
MaxIdle == 6

\* BaseWebWeaverAgent.__init__ for a planner or a writer; cacheable is
\* llm_config["cacheable_tools"], max_calls is MAX_LLM_CALL_PER_RUN.
\* dispatches, runs, first_results and returned record, per cache key, how
\* many dispatches reached the cache check, how often tool.call was run,
\* what its first run gave and which strings the dispatches returned;
\* emitted records the last outline the model has sent in this run.
WeaverNew(kind, xml, cacheable, max_calls) ==
  [kind |-> kind, xml |-> xml,
   tool_map |-> IF kind = "planner" THEN PlannerTools ELSE WriterTools,
   cacheable_tools |-> cacheable, tool_call_cache |-> EmptyDict,
   memory_bank |-> <<>>,
   max_calls |-> max_calls, pc |-> "new", run_no |-> 0, i |-> 0,
   current_outline |-> <<>>, report_written_so_far |-> <<>>,
   last_observation |-> <<>>, seen_retrieve_keys |-> {},
   retrieve_repeat_counts |-> EmptyDict, retrieve_results_cache |-> EmptyDict,
   steps_since_last_write |-> 0, pending |-> <<>>, content |-> <<>>,
   call |-> NoCall, result |-> <<>>,
   dispatches |-> EmptyDict, runs |-> EmptyDict, first_results |-> EmptyDict,
   returned |-> EmptyDict, emitted |-> <<>>]

\* return current_outline / return report_written_so_far
WeaverReturn(w) ==
  [w EXCEPT !.pc = "returned",
            !.result = IF w.kind = "planner" THEN w.current_outline
                       ELSE w.report_written_so_far]

\* the end of one pass of for i in range(MAX_LLM_CALL_PER_RUN)
NextIteration(w) ==
  IF w.i + 1 < w.max_calls THEN [w EXCEPT !.i = @ + 1, !.pc = "await_llm"]
  ELSE WeaverReturn([w EXCEPT !.i = @ + 1])

\* run() up to its first call of the LLM
WeaverRunStart(w) ==
  LET w1 == [w EXCEPT
               !.run_no = @ + 1,
               !.i = 0,
               !.current_outline = IF w.kind = "planner" THEN InitOutline ELSE <<>>,
               !.report_written_so_far = <<>>,
               !.last_observation = IF w.kind = "planner" THEN PlannerObservation
                                    ELSE WriterObservation,
               !.seen_retrieve_keys = {},
               !.retrieve_repeat_counts = EmptyDict,
               !.retrieve_results_cache = EmptyDict,
               !.steps_since_last_write = 0,
               !.emitted = IF w.kind = "planner" THEN InitOutline ELSE <<>>]
  IN  IF w.max_calls = 0 THEN WeaverReturn(w1) ELSE [w1 EXCEPT !.pc = "await_llm"]

\* the writer's hint after MaxIdle steps without a write; native: the text
\* of the function-calling branch
ForceWriteHint(w, native) ==
  IF w.kind = "writer" /\ w.steps_since_last_write >= MaxIdle
  THEN [w EXCEPT !.last_observation =
          @ \o IF native THEN Lit("\nInstruction: You MUST output <write> now.")
               ELSE Lit("\nInstruction: You have gathered sufficient evidence. You MUST output <write> with a well-structured section now.")]
  ELSE w

\* steps_since_last_write += 1 (the planner has no such counter)
Idle(w) ==
  IF w.kind = "writer" THEN [w EXCEPT !.steps_since_last_write = @ + 1] ELSE w

\* re.search(r"<tag>(.*?)</tag>", text, re.DOTALL): the first block of the tag
HasBlock(text, tag) == \E i \in 1..Len(text) : text[i].tag = tag

FirstBlock(text, tag) ==
  text[CHOOSE i \in 1..Len(text) :
         text[i].tag = tag /\ \A j \in 1..(i - 1) : text[j].tag # tag].body

WriteTag(kind) == IF kind = "planner" THEN "write_outline" ELSE "write"

\* faulty variant of parse_output: a tool_call block is looked for before
\* the terminate tag
WeaverParseOutputToolFirst(kind, text) ==
  LET plan == IF HasBlock(text, "plan") THEN Strip(FirstBlock(text, "plan"))
              ELSE <<>>
  IN  IF HasBlock(text, "tool_call")
      THEN [plan |-> plan, action_type |-> "tool_call",
            action_content |-> FirstBlock(text, "tool_call")]
      ELSE IF HasBlock(text, "terminate")
           THEN [plan |-> plan, action_type |-> "terminate", action_content |-> <<>>]
      ELSE IF HasBlock(text, WriteTag(kind))
           THEN [plan |-> plan, action_type |-> WriteTag(kind),
                 action_content |-> Strip(FirstBlock(text, WriteTag(kind)))]
      ELSE [plan |-> plan, action_type |-> "error",
            action_content |-> Lit("No valid action tag found.")]

\* WebWeaverPlanner.parse_output and WebWeaverWriter.parse_output
WeaverParseOutput(kind, text) ==
  LET plan == IF HasBlock(text, "plan") THEN Strip(FirstBlock(text, "plan"))
              ELSE <<>>
  IN  IF HasBlock(text, "terminate")
      THEN [plan |-> plan, action_type |-> "terminate", action_content |-> <<>>]
      ELSE IF HasBlock(text, WriteTag(kind))
           THEN [plan |-> plan, action_type |-> WriteTag(kind),
                 action_content |-> Strip(FirstBlock(text, WriteTag(kind)))]
      ELSE IF HasBlock(text, "tool_call")
           THEN [plan |-> plan, action_type |-> "tool_call",
                 action_content |-> FirstBlock(text, "tool_call")]
      ELSE [plan |-> plan, action_type |-> "error",
            action_content |-> Lit("No valid action tag found.")]

\* report_written_so_far += "\n\n" + section_prose, and the observation
Written(w, section_prose) ==
  [w EXCEPT !.report_written_so_far = @ \o <<"\n\n">> \o section_prose,
            !.last_observation = <<"Section written successfully:\n">>
                                   \o section_prose \o <<"\n">>,
            !.steps_since_last_write = 0]

\* the writer's key of a retrieve call: json.dumps(tool_args, sort_keys=True)
IsRetrieve(w, call) == w.kind = "writer" /\ call.ok /\ call.name = "retrieve"

RetrieveKey(call) == CanonJson(call.args)

\* the observation of a retrieve that was made before
AlreadyRetrieved(native, cached_evidence) ==
  (IF native THEN Lit("Evidence already retrieved. Here it is again:\n\n")
   ELSE Lit("Evidence already retrieved:\n\n"))
    \o cached_evidence \o Lit("\n\nYou MUST now proceed to <write> the section.")

\* the writer's branch for a key in seen_retrieve_keys
Repeated(w, key, native) ==
  Idle([w EXCEPT
          !.retrieve_repeat_counts = Put(@, key, Get(@, key, 1) + 1),
          !.last_observation =
             AlreadyRetrieved(native, Get(w.retrieve_results_cache, key, <<>>))])

\* faulty variant of XmlStep: a retrieve is handed to _execute_xml_tool
\* whether or not its key was seen
XmlStepNoSeen(w, text) ==
  LET parsed == WeaverParseOutput(w.kind, text)
      call == parsed.action_content
  IN  CASE parsed.action_type = "terminate" -> WeaverReturn(w)
        [] parsed.action_type = "write_outline" ->
             NextIteration([w EXCEPT
                              !.current_outline = parsed.action_content,
                              !.last_observation = Lit("Outline successfully updated.")])
        [] parsed.action_type = "write" ->
             NextIteration(ForceWriteHint(Written(w, parsed.action_content), FALSE))
        [] parsed.action_type = "tool_call" ->
             [w EXCEPT !.seen_retrieve_keys =
                          IF IsRetrieve(w, call) THEN @ \cup {RetrieveKey(call)} ELSE @,
                       !.pc = "await_tool", !.call = call]
        [] OTHER ->
             NextIteration(ForceWriteHint(
               Idle([w EXCEPT !.last_observation = parsed.action_content]), FALSE))

\* one pass of the loop in the textual protocol, from the LLM's response to
\* the next suspension
XmlStep(w, text) ==
  LET parsed == WeaverParseOutput(w.kind, text)
      call == parsed.action_content
  IN  CASE parsed.action_type = "terminate" -> WeaverReturn(w)
        [] parsed.action_type = "write_outline" ->
             NextIteration([w EXCEPT
                              !.current_outline = parsed.action_content,
                              !.last_observation = Lit("Outline successfully updated.")])
        [] parsed.action_type = "write" ->
             NextIteration(ForceWriteHint(Written(w, parsed.action_content), FALSE))
        [] parsed.action_type = "tool_call" ->
             IF IsRetrieve(w, call) /\ RetrieveKey(call) \in w.seen_retrieve_keys
             THEN NextIteration(Repeated(w, RetrieveKey(call), FALSE))
             ELSE [w EXCEPT !.seen_retrieve_keys =
                               IF IsRetrieve(w, call) THEN @ \cup {RetrieveKey(call)}
                               ELSE @,
                            !.pc = "await_tool", !.call = call]
        [] OTHER ->
             NextIteration(ForceWriteHint(
               Idle([w EXCEPT !.last_observation = parsed.action_content]), FALSE))

\* the last write_outline block of a response
LastBlock(text, tag) ==
  text[CHOOSE i \in 1..Len(text) :
         text[i].tag = tag /\ \A j \in (i + 1)..Len(text) : text[j].tag # tag].body

\* the most recent outline the model has sent once text has arrived
Emitted(w, text) ==
  IF w.kind = "planner" /\ HasBlock(text, "write_outline")
  THEN Strip(LastBlock(text, "write_outline"))
  ELSE w.emitted

\* the LLM's response arrives: native tool calls are worked off one by one,
\* anything else is parsed as text
WeaverResponse(w, resp) ==
  LET w1 == [w EXCEPT !.emitted = Emitted(w, resp.content)]
  IN  IF ~w.xml /\ resp.tool_calls # <<>>
      THEN [w1 EXCEPT !.pc = "fc_loop", !.pending = resp.tool_calls,
                      !.content = resp.content]
      ELSE XmlStep(w1, resp.content)

\* _execute_xml_tool has returned in the textual protocol
XmlToolDone(w, out) ==
  LET d == Dispatch(w, TRUE, w.call, out)
      w1 == [d.w EXCEPT
               !.last_observation = d.result,
               !.retrieve_results_cache =
                  IF IsRetrieve(w, w.call) THEN Put(@, RetrieveKey(w.call), d.result)
                  ELSE @,
               !.call = NoCall]
  IN  NextIteration(ForceWriteHint(Idle(w1), FALSE))

\* one pass of for tool_call in tool_calls
NativeCallDone(w, out) ==
  LET call == Head(w.pending)
      rest == [w EXCEPT !.pending = Tail(@)]
      next == IF Tail(w.pending) = <<>> THEN "fc_end" ELSE "fc_loop"
  IN  IF IsRetrieve(w, call) /\ RetrieveKey(call) \in w.seen_retrieve_keys
      THEN [Repeated(rest, RetrieveKey(call), TRUE) EXCEPT !.pc = next]
      ELSE LET d == Dispatch(rest, FALSE, call, out)
           IN  Idle([d.w EXCEPT
                       !.seen_retrieve_keys =
                          IF IsRetrieve(w, call) THEN @ \cup {RetrieveKey(call)}
                          ELSE @,
                       !.retrieve_results_cache =
                          IF IsRetrieve(w, call)
                          THEN Put(@, RetrieveKey(call), d.result) ELSE @,
                       !.last_observation = d.result,
                       !.pc = next])

\* after the native tool calls: a write or terminate in the content
NativeEnd(w) ==
  LET parsed == WeaverParseOutput(w.kind, w.content)
      w0 == [w EXCEPT !.content = <<>>]
  IN  IF w.content # <<>> /\ parsed.action_type = "terminate"
      THEN WeaverReturn(w0)
      ELSE IF w.content # <<>> /\ parsed.action_type = "write_outline"
           THEN NextIteration([w0 EXCEPT !.current_outline = parsed.action_content])
      ELSE IF w.content # <<>> /\ parsed.action_type = "write"
           THEN NextIteration(ForceWriteHint(Written(w0, parsed.action_content), TRUE))
      ELSE NextIteration(ForceWriteHint(w0, TRUE))

\* the calls the model writes
RetrieveA1 ==
  WCall("A1", "retrieve", TRUE,
        <<Member("citation_ids", Val(<<"id_1">>, TRUE)), Member("top_k", Val(<<"3">>, FALSE))>>)
RetrieveA2 ==
  WCall("A2", "retrieve", TRUE,
        <<Member("top_k", Val(<<"3">>, FALSE)), Member("citation_ids", Val(<<"id_1">>, TRUE))>>)
RetrieveB ==
  WCall("B", "retrieve", TRUE,
        <<Member("citation_ids", Val(<<"id_2", "id_9">>, TRUE))>>)
BadCall(name) == WCall("X", name, FALSE, <<>>)
SearchQ1 ==
  WCall("Q1", "search", TRUE,
        <<Member("query", Val(<<"q">>, FALSE)), Member("top_k", Val(<<"3">>, FALSE))>>)
SearchQ2 ==
  WCall("Q2", "search", TRUE,
        <<Member("top_k", Val(<<"3">>, FALSE)), Member("query", Val(<<"q">>, FALSE))>>)
SearchP == WCall("P", "search", TRUE, <<Member("query", Val(<<"p">>, TRUE))>>)

WeaverCalls(kind) ==
  IF kind = "planner" THEN {SearchQ1, SearchQ2, SearchP, BadCall("search"), RetrieveB}
  ELSE {RetrieveA1, RetrieveA2, RetrieveB, BadCall("retrieve"), SearchQ1}

\* the responses of the LLM to a planner or a writer: no action tag, a
\* terminate, a write, a tool call, a tool call before a write, a write
\* before a terminate
WeaverTexts(kind) ==
  {<<>>, <<Blk("terminate", <<>>, TRUE)>>,
   <<Blk(WriteTag(kind), <<"S">>, TRUE)>>,
   <<Blk("tool_call", RetrieveB, TRUE), Blk(WriteTag(kind), <<"S">>, TRUE)>>,
   <<Blk(WriteTag(kind), <<"T">>, TRUE), Blk("terminate", <<>>, TRUE)>>}
  \cup {<<Blk("tool_call", c, TRUE)>> : c \in WeaverCalls(kind)}

\* the responses with native tool calls
WeaverNative(kind) ==
  LET write == <<Blk(WriteTag(kind), <<"S">>, TRUE)>>
      R(t, cs) == [content |-> t, tool_calls |-> cs]
  IN  IF kind = "writer"
      THEN {R(<<>>, <<RetrieveA1>>), R(<<>>, <<RetrieveA1, RetrieveA2>>),
            R(<<>>, <<RetrieveB>>), R(write, <<RetrieveA2>>),
            R(<<>>, <<BadCall("retrieve")>>),
            R(<<Blk("terminate", <<>>, TRUE)>>, <<SearchQ1>>)}
      ELSE {R(<<>>, <<SearchQ1>>), R(<<>>, <<SearchQ1, SearchQ2>>),
            R(<<>>, <<SearchP>>), R(write, <<SearchQ2>>),
            R(<<>>, <<BadCall("search")>>),
            R(<<Blk("terminate", <<>>, TRUE)>>, <<RetrieveB>>)}

WeaverResponses(kind, xml) ==
  IF xml THEN {[content |-> t, tool_calls |-> <<>>] : t \in WeaverTexts(kind)}
  ELSE WeaverNative(kind)
       \cup {[content |-> t, tool_calls |-> <<>>] :
               t \in {<<>>, <<Blk(WriteTag(kind), <<"S">>, TRUE)>>,
                      <<Blk("tool_call", RetrieveB, TRUE)>>}}

\* the tools of a WebWeaverAgent: a planner tool raises, refuses its
\* arguments, or adds the chunks it finds (the whole output as one chunk if
\* it finds none); the retrieve tool looks the IDs up
Chunk(content, summary) == [content |-> content, summary |-> summary]

BankOutcomes(call) ==
  IF call.name = "retrieve"
  THEN {[raises |-> FALSE, text |-> <<>>, adds |-> <<>>, lookup |-> TRUE]}
  ELSE {[raises |-> TRUE, text |-> <<"e1">>, adds |-> <<>>, lookup |-> FALSE],
        [raises |-> FALSE, text |-> <<"Error: parameter is required and cannot be empty.">>,
         adds |-> <<>>, lookup |-> FALSE],
        [raises |-> FALSE, text |-> <<>>, adds |-> <<Chunk("c1", "s1")>>,
         lookup |-> FALSE],
        [raises |-> FALSE, text |-> <<>>,
         adds |-> <<Chunk("c1", "s1"), Chunk("c2", "s2")>>, lookup |-> FALSE]}

\* the result of WebWeaverAgent.run: the keys of the dict and their values
NoBundle ==
  [keys |-> {}, final_outline |-> <<>>, final_report |-> <<>>, error |-> <<>>,
   memory_bank_size |-> 0]

\* no WebWeaverAgent: the planner or writer is used on its own
NoWebWeaverAgent ==
  [pc |-> "none", writer |-> <<>>, final_outline |-> <<>>, result |-> NoBundle]

\* WebWeaverAgent.__init__: the planner is the agent of ww; writer is the
\* writer built over the same bank
WebWeaverAgentNew(xml, max_calls) ==
  [pc |-> "new", writer |-> WeaverNew("writer", xml, {"retrieve"}, max_calls),
   final_outline |-> <<>>, result |-> NoBundle]

\* faulty variant of PhaseError: the bundle of a failed phase carries the
\* outline the run holds
PhaseErrorWithOutline(a, phase) ==
  [a EXCEPT !.pc = "returned",
            !.result = [NoBundle EXCEPT
                          !.keys = {"question", "final_outline", "final_report",
                                    "error"},
                          !.final_outline = a.final_outline,
                          !.error = <<phase, " phase error: ", "e">>]]

\* except Exception as e, in either phase (asyncio.TimeoutError included)
PhaseError(a, phase) ==
  [a EXCEPT !.pc = "returned",
            !.result = [NoBundle EXCEPT !.keys = {"question", "final_report", "error"},
                                        !.error = <<phase, " phase error: ", "e">>]]

\* faulty variant of StartWriter: the writer is given a bank of its own
StartWriterOwnBank(a, planner) ==
  [wa |-> [a EXCEPT !.pc = "writer", !.final_outline = planner.result],
   ww |-> WeaverRunStart(a.writer)]

\* planner.run has returned: the writer's run() up to its first LLM call.
\* The writer reads the MemoryBank object the planner's tools wrote.
StartWriter(a, planner) ==
  [wa |-> [a EXCEPT !.pc = "writer", !.final_outline = planner.result],
   ww |-> WeaverRunStart([a.writer EXCEPT !.memory_bank = planner.memory_bank])]

\* writer.run has returned: the result dict
AgentDone(a, writer) ==
  [a EXCEPT !.pc = "returned",
            !.result = [keys |-> {"question", "final_outline", "final_report",
                                  "memory_bank_size", "total_time_seconds"},
                        final_outline |-> a.final_outline,
                        final_report |-> writer.result,
                        error |-> <<>>,
                        memory_bank_size |-> Len(writer.memory_bank)]]

\* ------------------------------------------------------------- test-time scaling
\* the most parallel samples of one TestTimeScalingAgent.run
MaxSamples == 3

\* a sample that gather() still waits for
PendingSample ==
  [kind |-> "pending", termination |-> "", prediction |-> "", report |-> ""]

\* what gather(return_exceptions=True) holds for a sample whose run() raised
SampleException ==
  [kind |-> "exception", termination |-> "", prediction |-> "", report |-> ""]

\* the dicts a sample's run() may return
SampleDicts ==
  { [kind |-> "dict", termination |-> "answer found", prediction |-> "P1",
     report |-> "R1"],
    [kind |-> "dict", termination |-> "timeout",
     prediction |-> "No answer found.", report |-> "R2"] }

\* what call_server returns: a dict whose content is the stripped text
CallServerResults ==
  { [type |-> "dict", content |-> c] : c \in {"S1", ""} }

NoTtsBundle ==
  [final_synthesized_answer |-> "", parallel_runs |-> <<>>,
   synthesis_inputs |-> <<>>]

\* a TestTimeScalingAgent whose run() is called with n samples
TtsNew(n) ==
  [pc |-> "new", n |-> n, results |-> [i \in 1..n |-> PendingSample],
   valid_results |-> <<>>, synthesis_calls |-> <<>>, bundle |-> NoTtsBundle,
   error |-> ""]

NoTts == TtsNew(0)

\* the loop over gather's results: only the dicts are kept
ValidResults(results) == SelectSeq(results, LAMBDA r : r.kind = "dict")

\* reports_for_log: answer, report and termination of every result passed
ReportsForLog(valid) ==
  [i \in 1..Len(valid) |->
     [agent |-> i, answer |-> valid[i].prediction, report |-> valid[i].report,
      termination |-> valid[i].termination]]

\* the dict run() returns
TtsBundle(t, answer, reports) ==
  [t EXCEPT !.pc = "returned",
            !.bundle = [final_synthesized_answer |-> answer,
                        parallel_runs |-> t.valid_results,
                        synthesis_inputs |-> reports]]

\* gather() returns; run_synthesis up to its return or its call of the LLM,
\* whose request carries the prompt built from the results and no tools
RunSynthesis(t) ==
  LET valid == ValidResults(t.results)
      u == [t EXCEPT !.valid_results = valid]
  IN  IF valid = <<>>
      THEN TtsBundle(u, "Synthesis failed: No research data available.", <<>>)
      ELSE [u EXCEPT !.pc = "await_synthesis",
                     !.synthesis_calls =
                        Append(@, [inputs |-> valid, tools |-> <<>>])]

\* call_server has returned res: str.strip of it, then the return of run()
SynthesisDone(t, res) ==
  IF res.type = "str"
  THEN TtsBundle(t, res.content, ReportsForLog(t.valid_results))
  ELSE [t EXCEPT !.pc = "raised", !.error = "AttributeError"]

\* ------------------------------------------------------------- parsers
\* the most blocks of a response handed to parse_output
MaxBlocks == 3

\* the blocks of the responses of a planner or a writer
WeaverBlocks(kind) ==
  {Blk("plan", <<"p">>, TRUE), Blk("plan", <<" ", "q">>, TRUE),
   Blk("tool_call", SearchQ1, TRUE), Blk("tool_call", RetrieveB, TRUE),
   Blk(WriteTag(kind), <<"S", " ">>, TRUE), Blk(WriteTag(kind), <<"T">>, TRUE),
   Blk("terminate", <<>>, TRUE)}

\* the blocks of the responses of the iterative agent; the last one
\* follows other text on its line
ResearcherBlocks ==
  {Blk("plan", <<"p">>, TRUE), Report(<<"r">>), ToolCall(<<"search", "q">>),
   Answer(<<"a">>), Answer(<<"b", " ">>), Answer(<<>>), Terminate(<<"t">>),
   Blk("answer", <<"c">>, FALSE)}

\* the responses of up to MaxBlocks blocks
ParserTexts(kind) ==
  LET blocks == IF kind = "researcher" THEN ResearcherBlocks ELSE WeaverBlocks(kind)
  IN  UNION {[1..n -> blocks] : n \in 0..MaxBlocks}

NoParsed == [plan |-> <<>>, action_type |-> "", action_content |-> <<>>]

NoOutput ==
  [plan |-> <<>>, report |-> <<>>, tool_call |-> <<>>, answer |-> <<>>,
   terminate |-> FALSE, terminate_reason |-> <<>>]

\* one call of parse_output(text) of an agent of the kind
ParseNew(kind, text) ==
  [pc |-> "new", kind |-> kind, text |-> text, parsed |-> NoParsed,
   output |-> NoOutput]

NoParse == [ParseNew("researcher", <<>>) EXCEPT !.pc = "none"]

\* parse_output returns
ParseReturn(p) ==
  IF p.kind = "researcher"
  THEN [p EXCEPT !.pc = "returned", !.output = ParseOutput(p.text)]
  ELSE [p EXCEPT !.pc = "returned", !.parsed = WeaverParseOutput(p.kind, p.text)]

\* ------------------------------------------------------------- state
VARIABLES
  ag,       \* ag[t]: the WebResearcherAgent of task t and the locals of its run()
  task,     \* task[t]: the _run_research task of the t-th submitted question
  session,  \* the session's turns and _current_turn (index, 0: None)
  file,     \* the lines of the JSONL history file
  lock,     \* the holder of _history_lock (0: free)
  sse,      \* the event_generator of one subscriber of the session's stream
  cl,       \* one call of call_server of one of the LLM clients
  ww,       \* one WebWeaverPlanner or WebWeaverWriter and the locals of its run()
  wa,       \* one WebWeaverAgent and the locals of its run()
  tts,      \* one TestTimeScalingAgent and the locals of its run()
  pr        \* one call of parse_output of one of the agents

svars == <<task, session, file, lock, sse>>

\* the components beside the research agent and the session
xvars == <<cl, ww, wa, tts, pr>>

vars == <<ag, task, session, file, lock, sse, cl, ww, wa, tts, pr>>

\* what the tool of a call may do: inside a WebWeaverAgent the tools are
\* the planner tools and the retrieve tool over its bank
OutcomesOf(call) == IF wa.pc = "none" THEN WeaverOutcomes ELSE BankOutcomes(call)

Tasks == 1..MaxSubmits

SessionId == "s1"

\* the questions submitted, in order
Questions == <<"Q1", "Q2", "Q3", "Q4", "Q5", "Q6", "Q7", "Q8">>

IdleTask == [pc |-> "idle", question |-> <<>>, history |-> <<>>, record |-> <<>>]

NoSubscriber ==
  [pc |-> "closed", turn |-> 0, turn_index |-> 0, sent_count |-> 0, out |-> <<>>]

SessionInit ==
  /\ task = [t \in Tasks |-> IdleTask]
  /\ session = [turns |-> <<>>, current |-> 0]
  /\ file = <<>>
  /\ lock = 0
  /\ sse = NoSubscriber
  /\ cl = NewCall("researcher", 3)
  /\ ww = WeaverNew("writer", TRUE, {"retrieve"}, 0)
  /\ wa = NoWebWeaverAgent
  /\ tts = NoTts
  /\ pr = NoParse

\* the function_list arguments explored: none given, and one tool only
FunctionLists == {{}, {"visit"}}

\* an agent of either mode, with the budget the environment sets
Init ==
  /\ \E rmax \in 0..MaxCalls, xml \in BOOLEAN, fl \in FunctionLists :
       ag = [t \in Tasks |-> WithFunctionList(AgentNew(rmax, xml), fl)]
  /\ SessionInit

\* a session just created; its agents are built by _run_research
InitSession ==
  /\ ag = [t \in Tasks |-> AgentNew(MaxCalls, TRUE)]
  /\ SessionInit

\* Condition.notify_all: a generator waiting on the condition is woken
NotifyAll(g) == IF g.pc = "wait" THEN [g EXCEPT !.pc = "woken"] ELSE g

\* the end of _run_research once run() has returned: summary event,
\* finish_turn, and the record _persist_session is about to write
RunReturned(s, result) ==
  FinishTurn(AddEvent(s, Ev("summary", 0, result.prediction)),
             result.prediction, result, "")

\* the events emitted since the agent's last suspension, handed to progress
NewEvents(old, new) == SubSeq(new.log, Len(old.log) + 1, Len(new.log))

\* agent t moves to a: a step of run() and, for a run started by
\* _run_research, what its progress callback and its return do to the session
Step(t, a) ==
  /\ ag' = [ag EXCEPT ![t] = a]
  /\ IF task[t].pc = "running"
     THEN LET s1 == AddEvents(session, NewEvents(ag[t], a))
              s2 == IF a.pc = "done" THEN RunReturned(s1, a.result) ELSE s1
          IN  /\ session' = s2
              /\ task' = IF a.pc = "done"
                         THEN [task EXCEPT ![t].pc = "persist",
                                 ![t].record = HistoryRecord(SessionId, s2.turns)]
                         ELSE task
              /\ sse' = IF s2 # session THEN NotifyAll(sse) ELSE sse
              /\ UNCHANGED <<file, lock, xvars>>
     ELSE UNCHANGED <<svars, xvars>>

\* agent.run(question, progress_callback) called directly; log is what the
\* callback is handed
Run(t) ==
  /\ ag[t].pc = "new"
  /\ task[t].pc = "idle"
  /\ \E timedOut \in BOOLEAN : Step(t, RunStart(ag[t], Lit("Q"), timedOut))

\* the LLM request of a round is answered
LLMResponse(t, responses) ==
  /\ ag[t].pc = "await_llm"
  /\ \E resp \in responses : Step(t, ProcessResponse(ag[t], resp))

\* the tool of a textual round has run
ToolResult(t, outcomes, limits) ==
  /\ ag[t].pc = "await_tool"
  /\ \E out \in outcomes, lim \in limits :
       Step(t, ToolDone(ag[t], out, lim.overLimit, lim.timedOut))

\* one native tool call has run
FunctionCallResult(t) ==
  /\ ag[t].pc = "await_fc_tool"
  /\ \E out \in NativeOutcomes, lim \in Limits :
       Step(t, FunctionCallDone(ag[t], out, lim.overLimit, lim.timedOut))

\* the forced call after a response without action is answered
ForcedResponse(t, responses) ==
  /\ ag[t].pc = "await_forced"
  /\ \E resp \in responses : Step(t, ForcedDone(ag[t], resp))

\* the forced call after the token limit is answered
TokenForcedResponse(t, responses) ==
  /\ ag[t].pc = "await_token_forced"
  /\ \E resp \in responses : Step(t, TokenForcedDone(ag[t], resp))

\* POST /api/research: start_research creates the task of the question
Submit ==
  \E t \in Tasks :
    /\ task[t].pc = "idle"
    /\ ag[t].pc = "new"
    /\ \A u \in 1..(t - 1) : task[u].pc # "idle"
    /\ task' = [task EXCEPT ![t].pc = "scheduled",
                            ![t].question = Lit(Questions[t])]
    /\ UNCHANGED <<ag, session, file, lock, sse, xvars>>

\* _run_research up to the first LLM request of run(): add_turn, the
\* history context, the agent, and the first pass through the loop head.
\* Tasks start in the order they were created.
TaskStart(t) ==
  /\ task[t].pc = "scheduled"
  /\ \A u \in 1..(t - 1) : task[u].pc # "scheduled"
  /\ LET s1 == AddTurn(session, task[t].question)
         a == RunStart(ag[t], task[t].question, FALSE)
         s2 == AddEvents(s1, NewEvents(ag[t], a))
         s3 == IF a.pc = "done" THEN RunReturned(s2, a.result) ELSE s2
     IN  /\ ag' = [ag EXCEPT ![t] = a]
         /\ session' = s3
         /\ task' = [task EXCEPT
                       ![t].pc = IF a.pc = "done" THEN "persist" ELSE "running",
                       ![t].history = HistoryContext(s1.turns),
                       ![t].record = IF a.pc = "done"
                                     THEN HistoryRecord(SessionId, s3.turns)
                                     ELSE <<>>]
         /\ sse' = NotifyAll(sse)
         /\ UNCHANGED <<file, lock, xvars>>

\* faulty variant of _persist_session: the line is written without waiting
\* for _history_lock
PersistBeginNoLock(t) ==
  /\ task[t].pc = "persist"
  /\ lock' = t
  /\ task' = [task EXCEPT ![t].pc = "writing"]
  /\ UNCHANGED <<ag, session, file, sse, xvars>>

\* _persist_session: _history_lock is taken
PersistBegin(t) ==
  /\ task[t].pc = "persist"
  /\ lock = 0
  /\ lock' = t
  /\ task' = [task EXCEPT ![t].pc = "writing"]
  /\ UNCHANGED <<ag, session, file, sse, xvars>>

\* _persist_session: the line is appended and the lock released
PersistEnd(t) ==
  /\ task[t].pc = "writing"
  /\ lock = t
  /\ file' = Append(file, DumpRecord(task[t].record, session.turns))
  /\ lock' = 0
  /\ task' = [task EXCEPT ![t].pc = "finished"]
  /\ UNCHANGED <<ag, session, sse, xvars>>

\* event_generator from the top of the inner loop, on the turn it holds:
\* the next unsent event is yielded, or turn_finished, or it waits
SseAdvance(g) ==
  LET turn == session.turns[g.turn]
  IN  IF g.sent_count < Len(turn.events)
      THEN [g EXCEPT !.pc = "yield",
                     !.out = Append(@, [type |-> turn.events[g.sent_count + 1].type,
                                        turn_index |-> g.turn_index,
                                        turn |-> g.turn])]
      ELSE IF turn.status \in {"completed", "failed"}
      THEN [g EXCEPT !.pc = "ended",
                     !.out = Append(@, [type |-> "turn_finished",
                                        turn_index |-> g.turn_index,
                                        turn |-> g.turn])]
      ELSE [g EXCEPT !.pc = "wait"]

\* GET /api/session/{id}/stream
SseConnect ==
  /\ sse.pc = "closed"
  /\ task[1].pc # "idle"
  /\ sse' = IF session.current = 0
            THEN [sse EXCEPT !.pc = "ended",
                             !.out = <<[type |-> "info", turn_index |-> 0,
                                        turn |-> 0]>>]
            ELSE [sse EXCEPT !.pc = "start"]
  /\ UNCHANGED <<ag, task, session, file, lock, xvars>>

\* event_generator at the top of its outer loop (first pass, or woken)
SseIterate ==
  /\ sse.pc \in {"start", "woken"}
  /\ sse' = SseAdvance([sse EXCEPT !.turn = session.current,
                                   !.turn_index = Len(session.turns) - 1])
  /\ UNCHANGED <<ag, task, session, file, lock, xvars>>

\* event_generator resumed after a yield
SseResume ==
  /\ sse.pc = "yield"
  /\ sse' = SseAdvance([sse EXCEPT !.sent_count = @ + 1])
  /\ UNCHANGED <<ag, task, session, file, lock, xvars>>

Next ==
  \/ Run(1)
  \/ LLMResponse(1, Responses(ag[1].xml))
  \/ ToolResult(1, ToolOutcomes, Limits)
  \/ FunctionCallResult(1)
  \/ ForcedResponse(1, ForcedResponses)
  \/ TokenForcedResponse(1, ForcedResponses)

Spec == Init /\ [][Next]_vars

NextSession ==
  \/ Submit
  \/ \E t \in Tasks :
       \/ TaskStart(t)
       \/ LLMResponse(t, SessionResponses)
       \/ ToolResult(t, SessionToolOutcomes, SessionLimits)
       \/ ForcedResponse(t, SessionForcedResponses)
       \/ TokenForcedResponse(t, SessionForcedResponses)
       \/ PersistBegin(t)
       \/ PersistEnd(t)
  \/ SseConnect
  \/ SseIterate
  \/ SseResume

SpecSession == InitSession /\ [][NextSession]_vars

\* --- a session that holds the turns of earlier questions
\* the most turns a session holds before the questions are submitted
MaxEarlier == 7

EarlierQuestions == <<"E1", "E2", "E3", "E4", "E5", "E6", "E7", "E8", "E9">>
EarlierAnswers == <<"A1", "A2", "A3", "A4", "A5", "A6", "A7", "A8", "A9">>

\* the turn _load_session_from_history rebuilds: a completed turn has the
\* non-empty prediction of its run as answer; at most two of the turns of
\* a session are failed or were left running
EarlierTurn(i, status) ==
  [NewTurn(i, <<EarlierQuestions[i]>>, status) EXCEPT
     !.answer = IF status = "completed" THEN <<EarlierAnswers[i]>> ELSE <<>>]

\* what the LLM answers to the agents of such a session
HistoryResponses ==
  {Resp(<<Report(<<"r">>), Answer(<<"a", " ">>)>>, FALSE, <<>>, FALSE)}

InitHistory ==
  /\ ag = [t \in Tasks |-> AgentNew(MaxCalls, TRUE)]
  /\ task = [t \in Tasks |-> IdleTask]
  /\ \E n \in 0..MaxEarlier :
       \E status \in [1..n -> {"completed", "failed", "running"}] :
         /\ Cardinality({i \in 1..n : status[i] # "completed"}) <= 2
         /\ session = [turns |-> [i \in 1..n |-> EarlierTurn(i, status[i])],
                       current |-> 0]
  /\ file = <<>>
  /\ lock = 0
  /\ sse = NoSubscriber
  /\ cl = NewCall("researcher", 3)
  /\ ww = WeaverNew("writer", TRUE, {"retrieve"}, 0)
  /\ wa = NoWebWeaverAgent
  /\ tts = NoTts
  /\ pr = NoParse

NextHistory ==
  \/ Submit
  \/ \E t \in Tasks :
       \/ TaskStart(t)
       \/ LLMResponse(t, HistoryResponses)
       \/ PersistBegin(t)
       \/ PersistEnd(t)

SpecHistory == InitHistory /\ [][NextHistory]_vars

\* largest max_tries explored
MaxTries == 3

\* a call of call_server of any client, with any max_tries
InitClient ==
  /\ ag = [t \in Tasks |-> AgentNew(MaxCalls, TRUE)]
  /\ task = [t \in Tasks |-> IdleTask]
  /\ session = [turns |-> <<>>, current |-> 0]
  /\ file = <<>>
  /\ lock = 0
  /\ sse = NoSubscriber
  /\ \E kind \in Clients, n \in 0..MaxTries : cl = NewCall(kind, n)
  /\ ww = WeaverNew("writer", TRUE, {"retrieve"}, 0)
  /\ wa = NoWebWeaverAgent
  /\ tts = NoTts
  /\ pr = NoParse

\* call_server is called
CallStart ==
  /\ cl.pc = "idle"
  /\ cl' = Attempt(cl, 0)
  /\ UNCHANGED <<ag, svars, ww, wa, tts, pr>>

\* the request of the pass is answered, or fails
RequestAnswered ==
  /\ cl.pc = "request"
  /\ \E outcome \in RequestOutcomes, jitter \in {0, 1} :
       cl' = RequestDone(cl, outcome, jitter)
  /\ UNCHANGED <<ag, svars, ww, wa, tts, pr>>

\* asyncio.sleep(sleep_time) is over: the next pass
SleepDone ==
  /\ cl.pc = "sleep"
  /\ cl' = Attempt(cl, cl.attempt + 1)
  /\ UNCHANGED <<ag, svars, ww, wa, tts, pr>>

NextClient == CallStart \/ RequestAnswered \/ SleepDone

SpecClient == InitClient /\ [][NextClient]_vars

\* largest MAX_LLM_CALL_PER_RUN the planner's and the writer's loop are
\* explored with
MaxWeaverCalls == 6

\* a planner or a writer of either protocol, with the default cacheable
\* tools or (the planner) with search added to them
InitWeaver ==
  /\ ag = [t \in Tasks |-> AgentNew(MaxCalls, TRUE)]
  /\ task = [t \in Tasks |-> IdleTask]
  /\ session = [turns |-> <<>>, current |-> 0]
  /\ file = <<>>
  /\ lock = 0
  /\ sse = NoSubscriber
  /\ cl = NewCall("weaver", 3)
  /\ \E kind \in {"planner", "writer"}, xml \in BOOLEAN,
        cacheable \in {{"retrieve"}, {"retrieve", "search"}} :
       /\ kind = "writer" => cacheable = {"retrieve"}
       /\ ww = WeaverNew(kind, xml, cacheable, MaxWeaverCalls)
  /\ wa = NoWebWeaverAgent
  /\ tts = NoTts
  /\ pr = NoParse

\* run() is called
WeaverRun ==
  /\ ww.pc = "new"
  /\ ww' = WeaverRunStart(ww)
  /\ UNCHANGED <<ag, svars, cl, wa, tts, pr>>

\* call_server returns the LLM's response
WeaverLLMResponse ==
  /\ ww.pc = "await_llm"
  /\ \E resp \in WeaverResponses(ww.kind, ww.xml) : ww' = WeaverResponse(ww, resp)
  /\ UNCHANGED <<ag, svars, cl, wa, tts, pr>>

\* _execute_xml_tool returns
WeaverToolResult ==
  /\ ww.pc = "await_tool"
  /\ \E out \in OutcomesOf(ww.call) : ww' = XmlToolDone(ww, out)
  /\ UNCHANGED <<ag, svars, cl, wa, tts, pr>>

\* the next native tool call of the response is handled
WeaverNativeCall ==
  /\ ww.pc = "fc_loop"
  /\ \E out \in OutcomesOf(Head(ww.pending)) : ww' = NativeCallDone(ww, out)
  /\ UNCHANGED <<ag, svars, cl, wa, tts, pr>>

\* the native tool calls of the response are worked off
WeaverNativeEnd ==
  /\ ww.pc = "fc_end"
  /\ ww' = NativeEnd(ww)
  /\ UNCHANGED <<ag, svars, cl, wa, tts, pr>>

NextWeaver ==
  \/ WeaverRun
  \/ WeaverLLMResponse
  \/ WeaverToolResult
  \/ WeaverNativeCall
  \/ WeaverNativeEnd

SpecWeaver == InitWeaver /\ [][NextWeaver]_vars


\* largest number of calls of run() on one agent object
MaxRuns == 2
\* largest MAX_LLM_CALL_PER_RUN explored when run() is called repeatedly
MaxRerunCalls == 2

\* a planner or a writer whose run() is called more than once
InitWeaverRuns ==
  /\ ag = [t \in Tasks |-> AgentNew(MaxCalls, TRUE)]
  /\ task = [t \in Tasks |-> IdleTask]
  /\ session = [turns |-> <<>>, current |-> 0]
  /\ file = <<>>
  /\ lock = 0
  /\ sse = NoSubscriber
  /\ cl = NewCall("weaver", 3)
  /\ \E kind \in {"planner", "writer"}, xml \in BOOLEAN,
        cacheable \in {{"retrieve"}, {"retrieve", "search"}} :
       /\ kind = "writer" => cacheable = {"retrieve"}
       /\ ww = WeaverNew(kind, xml, cacheable, MaxRerunCalls)
  /\ wa = NoWebWeaverAgent
  /\ tts = NoTts
  /\ pr = NoParse

\* run() is called again on the agent object after it has returned
WeaverRunAgain ==
  /\ ww.pc = "returned"
  /\ ww.run_no < MaxRuns
  /\ ww' = WeaverRunStart(ww)
  /\ UNCHANGED <<ag, svars, cl, wa, tts, pr>>

NextWeaverRuns == NextWeaver \/ WeaverRunAgain

SpecWeaverRuns == InitWeaverRuns /\ [][NextWeaverRuns]_vars

\* largest MAX_LLM_CALL_PER_RUN explored for the two phases of a
\* WebWeaverAgent
MaxPhaseCalls == 2

\* a WebWeaverAgent of either protocol
InitAgent ==
  /\ ag = [t \in Tasks |-> AgentNew(MaxCalls, TRUE)]
  /\ task = [t \in Tasks |-> IdleTask]
  /\ session = [turns |-> <<>>, current |-> 0]
  /\ file = <<>>
  /\ lock = 0
  /\ sse = NoSubscriber
  /\ cl = NewCall("weaver", 3)
  /\ \E xml \in BOOLEAN :
       /\ ww = WeaverNew("planner", xml, {"retrieve"}, MaxPhaseCalls)
       /\ wa = WebWeaverAgentNew(xml, MaxPhaseCalls)
  /\ tts = NoTts
  /\ pr = NoParse

\* WebWeaverAgent.run is called: the planner's run() up to its first LLM call
AgentRun ==
  /\ wa.pc = "new"
  /\ wa' = [wa EXCEPT !.pc = "planner"]
  /\ ww' = WeaverRunStart(ww)
  /\ UNCHANGED <<ag, svars, cl, tts, pr>>

\* the phase's run() raises, or wait_for cancels it at a suspension
PhaseFails ==
  /\ wa.pc \in {"planner", "writer"}
  /\ ww.pc \in {"await_llm", "await_tool", "fc_loop"}
  /\ wa' = PhaseError(wa, wa.pc)
  /\ ww' = [ww EXCEPT !.pc = "cancelled"]
  /\ UNCHANGED <<ag, svars, cl, tts, pr>>

\* planner.run returns its outline: the writer phase starts
PlannerReturns ==
  /\ wa.pc = "planner"
  /\ ww.pc = "returned"
  /\ wa' = StartWriter(wa, ww).wa
  /\ ww' = StartWriter(wa, ww).ww
  /\ UNCHANGED <<ag, svars, cl, tts, pr>>

\* writer.run returns its report: run() returns the result
WriterReturns ==
  /\ wa.pc = "writer"
  /\ ww.pc = "returned"
  /\ wa' = AgentDone(wa, ww)
  /\ UNCHANGED <<ag, svars, cl, ww, tts, pr>>

NextAgent ==
  \/ AgentRun
  \/ WeaverLLMResponse
  \/ WeaverToolResult
  \/ WeaverNativeCall
  \/ WeaverNativeEnd
  \/ PhaseFails
  \/ PlannerReturns
  \/ WriterReturns

SpecAgent == InitAgent /\ [][NextAgent]_vars

\* --- one TestTimeScalingAgent.run
InitTts ==
  /\ ag = [t \in Tasks |-> AgentNew(0, TRUE)]
  /\ task = [t \in Tasks |-> IdleTask]
  /\ session = [turns |-> <<>>, current |-> 0]
  /\ file = <<>>
  /\ lock = 0
  /\ sse = NoSubscriber
  /\ cl = NewCall("researcher", 3)
  /\ ww = WeaverNew("writer", TRUE, {"retrieve"}, 0)
  /\ wa = NoWebWeaverAgent
  /\ \E n \in 1..MaxSamples : tts = TtsNew(n)
  /\ pr = NoParse

\* run() is called: run_parallel_research up to its gather()
TtsRun ==
  /\ tts.pc = "new"
  /\ tts' = [tts EXCEPT !.pc = "gather"]
  /\ UNCHANGED <<ag, svars, cl, ww, wa, pr>>

\* the run() of one sample returns its dict, or raises
SampleEnds ==
  /\ tts.pc = "gather"
  /\ \E i \in 1..tts.n, r \in SampleDicts \cup {SampleException} :
       /\ tts.results[i].kind = "pending"
       /\ tts' = [tts EXCEPT !.results[i] = r]
  /\ UNCHANGED <<ag, svars, cl, ww, wa, pr>>

\* every sample has ended: gather() returns and the synthesis starts
GatherReturns ==
  /\ tts.pc = "gather"
  /\ \A i \in 1..tts.n : tts.results[i].kind # "pending"
  /\ tts' = RunSynthesis(tts)
  /\ UNCHANGED <<ag, svars, cl, ww, wa, pr>>

\* the synthesis agent's call_server returns
SynthesisReturns ==
  /\ tts.pc = "await_synthesis"
  /\ \E res \in CallServerResults : tts' = SynthesisDone(tts, res)
  /\ UNCHANGED <<ag, svars, cl, ww, wa, pr>>

NextTts ==
  \/ TtsRun
  \/ SampleEnds
  \/ GatherReturns
  \/ SynthesisReturns

SpecTts == InitTts /\ [][NextTts]_vars


\* --- one call of parse_output
InitParse ==
  /\ ag = [t \in Tasks |-> AgentNew(0, TRUE)]
  /\ task = [t \in Tasks |-> IdleTask]
  /\ session = [turns |-> <<>>, current |-> 0]
  /\ file = <<>>
  /\ lock = 0
  /\ sse = NoSubscriber
  /\ cl = NewCall("researcher", 3)
  /\ ww = WeaverNew("writer", TRUE, {"retrieve"}, 0)
  /\ wa = NoWebWeaverAgent
  /\ tts = NoTts
  /\ \E kind \in {"researcher", "planner", "writer"} :
       \E text \in ParserTexts(kind) : pr = ParseNew(kind, text)

\* parse_output is called on the response
Parse ==
  /\ pr.pc = "new"
  /\ pr' = ParseReturn(pr)
  /\ UNCHANGED <<ag, svars, cl, ww, wa, tts>>

NextParse == Parse

SpecParse == InitParse /\ [][NextParse]_vars

\* ------------------------------------------------------------- claims
\* the terminations run() can return with
Terminations ==
  {"answer found", "terminate with answer", "terminated by llm",
   "finalized without answer tag", "answer (forced)", "format error",
   "token limit reached", "timeout", "unknown error", "report fallback"}

\* how far an agent is from the return of run(): rounds left, then the
\* suspension inside the round, then the native tool calls still to run
Phase(a) ==
  CASE a.pc = "await_llm" -> 3
    [] a.pc \in {"await_tool", "await_fc_tool"} -> 2
    [] a.pc \in {"await_forced", "await_token_forced"} -> 1
    [] OTHER -> 0

Rank(a) ==
  <<IF a.pc = "new" THEN 1 ELSE 0, a.avail, Phase(a), Len(a.pending)>>

RECURSIVE LexLess(_, _)
LexLess(x, y) ==
  /\ x # <<>>
  /\ \/ Head(x) < Head(y)
     \/ Head(x) = Head(y) /\ LexLess(Tail(x), Tail(y))

\* the run has returned, or it waits for a request whose answer resumes it
\* (the guard of one of the agent's actions holds)
ReturnedOrResumable(a) ==
  \/ a.pc \in {"done", "new", "await_llm", "await_forced", "await_token_forced"}
  \/ a.pc = "await_tool" /\ a.action_content # <<>>
  \/ a.pc = "await_fc_tool" /\ a.pending # <<>>

\* C1: run() returns whatever the LLM and the tools answer, and the round
\* counter never exceeds MAX_LLM_CALL_PER_RUN: round_num <= R_max throughout,
\* a run that has not returned can always take a step, and every step brings
\* the run strictly closer to its return.
C1_RunReturnsWithinBudget ==
  /\ [](ag[1].round_num <= ag[1].rmax)
  /\ [](ReturnedOrResumable(ag[1]))
  /\ [][LexLess(Rank(ag'[1]), Rank(ag[1]))]_vars

C1_Witness ==
  /\ ag[1].pc = "done"
  /\ ag[1].rmax = MaxCalls
  /\ ag[1].round_num = ag[1].rmax
  /\ ag[1].termination = "finalized without answer tag"

\* C2: on every exit path the returned bundle holds question, prediction,
\* report, termination and trajectory, and prediction is not empty.
C2_BundleComplete ==
  ag[1].pc = "done" =>
    /\ DOMAIN ag[1].result =
         {"question", "prediction", "report", "termination", "trajectory"}
    /\ ag[1].result.question = Lit("Q")
    /\ ag[1].result.prediction # <<>>
    /\ ag[1].result.report = ag[1].current_report
    /\ ag[1].result.termination \in Terminations

C2_Witness ==
  /\ ag[1].pc = "done"
  /\ ~ag[1].xml
  /\ ag[1].round_num = MaxCalls
  /\ ag[1].result.termination = "report fallback"
  /\ ag[1].result.prediction = <<"r">>

ToolEvents(a, r) ==
  {i \in 1..Len(a.log) : a.log[i].type = "tool" /\ a.log[i].round = r}

C5_ReportFollowsRound ==
  [][LET a == ag[1]
         b == ag'[1]
         given == IF a.pc = "await_llm" /\ b.pc # "await_fc_tool"
                  THEN ParseOutput(b.content).report
                  ELSE IF a.pc = "await_fc_tool" /\ Len(a.pending) = 1
                       THEN ParseOutput(a.content).report
                       ELSE <<>>
     IN  a.pc # "new" =>
           b.current_report = IF given # <<>> THEN given ELSE a.current_report
    ]_vars

C5_Witness ==
  /\ ag[1].round_num = 2
  /\ ag[1].termination = "finalized without answer tag"
  /\ ag[1].current_report = <<"r">>
  /\ \E i, j \in 1..Len(ag[1].log) :
       /\ ag[1].log[i] = Ev("round", 1, <<"r">>)
       /\ ag[1].log[j] = Ev("round", 2, <<>>)

\* the output of the current round is at hand and it holds an answer
RoundAnswered(a) ==
  /\ a.pc # "new"
  /\ a.llm_calls = a.round_num
  /\ ParseOutput(a.content).answer # <<>>

\* C8 as claimed: a round whose output holds an answer ends the loop with
\* that answer and termination 'answer found', also next to a terminate or
\* tool_call block, and no tool is run in that round.
C8_AnswerFound ==
  RoundAnswered(ag[1]) =>
    /\ ag[1].pc \in {"done", "await_fc_tool"}
    /\ ag[1].pc = "done" =>
         /\ ag[1].prediction = ParseOutput(ag[1].content).answer
         /\ ag[1].termination = "answer found"
         /\ RanInRound(ag[1], ag[1].round_num) = {}

\* C8 (amended): a round whose output holds an answer ends the loop in that
\* round with that answer as prediction; the termination is 'terminate with
\* answer' when the round went the textual path and the output also holds a
\* non-empty terminate block, and 'answer found' otherwise; a tool_call
\* block of that output is not run, but in the native mode the native tool
\* calls of the response are run before the answer is taken.
C8_AnswerEndsRound ==
  RoundAnswered(ag[1]) =>
    /\ ag[1].pc \in {"done", "await_fc_tool"}
    /\ ag[1].pc = "done" =>
         /\ ag[1].prediction = ParseOutput(ag[1].content).answer
         /\ ag[1].result.prediction = ParseOutput(ag[1].content).answer
         /\ ag[1].termination =
              IF ag[1].tool_results = <<>> /\ ParseOutput(ag[1].content).terminate
              THEN "terminate with answer" ELSE "answer found"
         /\ Cardinality(RanInRound(ag[1], ag[1].round_num))
              <= Len(ag[1].tool_results)

C8_Witness ==
  /\ ag[1].pc = "done"
  /\ ag[1].xml
  /\ ag[1].round_num = 2
  /\ ParseOutput(ag[1].content).answer = <<"a">>
  /\ ParseOutput(ag[1].content).tool_call # <<>>
  /\ ParseOutput(ag[1].content).terminate
  /\ ag[1].termination = "terminate with answer"
  /\ RanInRound(ag[1], 2) = {}

\* a text of a report block and a terminate block with an empty body
ReportAndEmptyTerminate(text) ==
  /\ Matches(text, "terminate") # <<>>
  /\ \A i \in 1..Len(text) : text[i].tag = "terminate" => text[i].body = <<>>
  /\ \A i \in 1..Len(text) : text[i].tag \in {"report", "terminate"}
  /\ ExtractLastBlock(text, "report") # <<>>

\* C9: a round whose output is a report block and <terminate></terminate>
\* ends the loop in that round with termination 'terminated by llm' and
\* prediction = current_report, without another LLM call.
C9_EmptyTerminateEndsRun ==
  LET a == ag[1]
  IN  /\ a.pc \notin {"new", "await_llm"}
      /\ a.termination # "token limit reached"
      /\ ReportAndEmptyTerminate(a.content)
      => /\ a.pc = "done"
         /\ a.termination = "terminated by llm"
         /\ a.prediction = Strip(a.current_report)
         /\ a.llm_calls = a.round_num

RECURSIVE FirstNonEmpty(_)
FirstNonEmpty(cands) ==
  IF cands = <<>> THEN <<>>
  ELSE IF Head(cands) # <<>> THEN Head(cands)
  ELSE FirstNonEmpty(Tail(cands))

\* the fixed strings run() returns when it has nothing else
Sentinels ==
  {Lit("No answer found (timeout)."),
   Lit("No answer found (format error after retry)."),
   Lit("No answer found (format error)."),
   Lit("No answer found (token limit)."),
   Lit("No answer found (exceeded available LLM calls)."),
   Lit("No answer found."),
   Lit("Error: Unknown")}

\* the LLM output the run ended on: the forced call's when one was made
LastOutput(a) ==
  ParseOutput(IF a.forced_content # <<>> THEN a.forced_content ELSE a.content)

RunningTurns(s) == {i \in 1..Len(s.turns) : s.turns[i].status = "running"}

\* C3: a session never has more than one running turn, whatever the
\* interleaving of the questions submitted to it
C3_SingleRunningTurn == Cardinality(RunningTurns(session)) <= 1

\* the number of events of type final in a log
NumFinal(events) ==
  Cardinality({i \in 1..Len(events) : events[i].type = "final"})

\* C6: when the stream has sent turn_finished for a turn, the log of that
\* turn holds exactly one event of type final
C6_OneFinalBeforeTurnFinished ==
  \A i \in 1..Len(sse.out) :
    sse.out[i].type = "turn_finished"
      => NumFinal(session.turns[sse.out[i].turn].events) = 1

\* every question submitted so far has been run and persisted
Quiescent ==
  /\ \A t \in Tasks : task[t].pc \in {"idle", "finished"}
  /\ RunningTurns(session) = {}

\* C7: once the turns of a session are finished and persisted, a manager that
\* does not hold the session loads from the history file the turns, events
\* and process data the session has in memory
C7_PersistenceRoundTrip ==
  (Quiescent /\ Len(session.turns) >= 1)
    => /\ LoadSessionFromHistory(file, SessionId) # <<>>
       /\ LoadSessionFromHistory(file, SessionId)[1].turns = session.turns

\* the response of the round was taken and its text holds no tool_call, no
\* answer and no terminate block the parser accepts
NoActionParsed(a, b) ==
  /\ a.pc = "await_llm"
  /\ Len(b.trajectory) = Len(a.trajectory) + 1
  /\ b.pc # "await_fc_tool"
  /\ ParseOutput(b.content).tool_call = <<>>
  /\ ParseOutput(b.content).answer = <<>>
  /\ ~ParseOutput(b.content).terminate

\* C11: a round that is not the last one and yields no tool_call, answer or
\* terminate makes exactly one forced-finalization LLM call, which uses up
\* no budget and opens no round; the answer to that call ends the run, with
\* its answer block as prediction ('answer (forced)') or else with
\* termination 'format error'; no further round follows.
C11_ForcedFinalization ==
  [][LET a == ag[1]
         b == ag'[1]
     IN  /\ (NoActionParsed(a, b) /\ ~a.is_last_call) =>
               /\ b.pc = "await_forced"
               /\ b.llm_calls = a.llm_calls + 1
               /\ b.avail = a.avail /\ b.round_num = a.round_num
         /\ a.pc = "await_forced" =>
               /\ b.pc = "done"
               /\ b.llm_calls = a.llm_calls
               /\ b.avail = a.avail /\ b.round_num = a.round_num
               /\ IF ParseOutput(b.forced_content).answer # <<>>
                  THEN /\ b.result.prediction = ParseOutput(b.forced_content).answer
                       /\ b.result.termination = "answer (forced)"
                  ELSE b.result.termination = "format error"
    ]_vars

C11_Witness ==
  /\ ag[1].pc = "done"
  /\ ag[1].rmax = 2 /\ ag[1].round_num = 1 /\ ag[1].avail = 1
  /\ ag[1].llm_calls = 2
  /\ ag[1].result.termination = "format error"

\* a text that holds a tool_call block and nothing else the parser accepts
OnlyToolCall(text) ==
  /\ ParseOutput(text).tool_call # <<>>
  /\ ParseOutput(text).report = <<>>
  /\ ParseOutput(text).answer = <<>>
  /\ ~ParseOutput(text).terminate

\* C12: with R_max = 1 the only round carries the finalize instruction
\* (is_last_call); when its output holds only a tool_call block the run ends
\* in that round with termination 'finalized without answer tag' and the
\* report as prediction, after one LLM call, and the tool asked for is not
\* run.
C12_OnlyToolCallOnLastRound ==
  LET a == ag[1]
  IN  (/\ a.rmax = 1
       /\ a.pc \notin {"new", "await_llm"}
       /\ a.termination \notin {"timeout", "unknown error"}
       /\ a.pending = <<>> /\ a.tool_results = <<>>
       /\ OnlyToolCall(a.content))
      => /\ a.pc = "done"
         /\ a.is_last_call
         /\ a.result.termination = "finalized without answer tag"
         /\ a.result.termination \in {"answer (forced)", "finalized without answer tag"}
         /\ a.result.prediction = Strip(a.current_report)
         /\ a.llm_calls = 1
         /\ a.executed = <<>>

C12_Witness ==
  /\ ag[1].pc = "done"
  /\ ag[1].rmax = 1
  /\ ag[1].content = <<ToolCall(<<"search", "q">>)>>
  /\ ag[1].result.termination = "finalized without answer tag"
  /\ ag[1].executed = <<>>

\* C13: when the first response is plan, report and answer blocks one after
\* another, the run takes one round and one LLM call, and returns the
\* answer body with termination 'answer found'.
C13_ImmediateAnswer ==
  LET a == ag[1]
  IN  (/\ a.round_num = 1
       /\ a.pc \notin {"new", "await_llm"}
       /\ a.content = OneLineAnswer)
      => /\ a.pc = "done"
         /\ a.llm_calls = 1
         /\ a.result.prediction = <<"Paris">>
         /\ a.result.termination = "answer found"

\* C14: a round whose prompt is over the token limit and that has not ended
\* the run makes one forced-finalization call and ends with termination
\* 'token limit reached', whatever budget is left, in the textual and in
\* the native mode.
C14_TokenLimitEndsRun ==
  [][LET a == ag[1]
         b == ag'[1]
         checked == /\ a.pc \in {"await_tool", "await_fc_tool"}
                    /\ (a.pc = "await_fc_tool" => Len(a.pending) = 1)
                    /\ b.over_limit
                    /\ ~(b.pc = "done" /\ b.termination = "answer found")
     IN  /\ checked => /\ b.pc = "await_token_forced"
                       /\ b.llm_calls = a.llm_calls + 1
         /\ a.pc = "await_token_forced"
             => /\ b.pc = "done"
                /\ b.llm_calls = a.llm_calls
                /\ b.result.termination = "token limit reached"
    ]_vars

\* b is how the run a ends when the deadline check that follows finds the
\* deadline passed: no round is opened and no LLM call made, the run returns
\* with termination 'timeout' and the report it holds
EndsOnTimeout(a, b) ==
  /\ b.pc = "done"
  /\ b.result.termination = "timeout"
  /\ b.result.report = b.current_report
  /\ b.llm_calls = a.llm_calls
  /\ b.round_num = a.round_num
  /\ \A i \in 1..Len(b.executed) : b.executed[i].round <= a.round_num
  /\ b.log[Len(b.log)].type = "status"

\* C15: the deadline is checked at the top of each round; when the check
\* finds it passed, the loop makes no further LLM call and runs no further
\* tool, ends with termination 'timeout' and returns the current_report
\* accumulated so far as report. Checked from every state in which the run
\* is about to reach a loop head with budget left.
C15_TimeoutAtRoundTop ==
  LET a == ag[1]
  IN  /\ (a.pc = "new" /\ a.rmax > 0) =>
            EndsOnTimeout(a, RunStart(a, Lit("Q"), TRUE))
      /\ (a.pc = "await_tool" /\ a.avail > 0) =>
            \A out \in ToolOutcomes :
              EndsOnTimeout(a, ToolDone(a, out, FALSE, TRUE))
      /\ (/\ a.pc = "await_fc_tool" /\ a.avail > 0 /\ Len(a.pending) = 1
          /\ ParseOutput(a.content).answer = <<>>) =>
            \A out \in NativeOutcomes, over \in BOOLEAN :
              EndsOnTimeout(a, FunctionCallDone(a, out, over, TRUE))
      /\ a.termination = "timeout" =>
            /\ a.pc = "done"
            /\ a.result.report = a.current_report
            /\ a.llm_calls = a.round_num

C15_Witness ==
  /\ ag[1].pc = "done"
  /\ ~ag[1].xml
  /\ ag[1].result.termination = "timeout"
  /\ ag[1].round_num = 1 /\ ag[1].llm_calls = 1
  /\ ag[1].executed # <<>>
  /\ ag[1].result.report = <<"r">>

\* a tool that raises when it is run
Raising == [raises |-> TRUE, text |-> <<>>]

Failures(kind) ==
  IF kind = "react" THEN RequestOutcomes \ {"ok"}
  ELSE {"rate_limit", "api", "other"}

\* C17: call_server never raises: it makes at most max_tries requests
\* whatever the API does, ends by returning, and when every request failed
\* it returns the client's error string as content.
C17_CallServerReturns ==
  /\ cl.pc \in {"idle", "request", "sleep", "returned"}
  /\ cl.requests <= cl.max_tries
  /\ Len(cl.seen) <= cl.requests
  /\ cl.pc = "sleep" => cl.requests < cl.max_tries /\ cl.sleep_time <= 30
  /\ cl.pc = "request" => cl.requests = Len(cl.seen) + 1
  /\ cl.pc = "returned" =>
       /\ cl.requests = Len(cl.seen)
       /\ (\A i \in 1..Len(cl.seen) : cl.seen[i] \notin {"ok", "empty"})
            => cl.content = ServerError(cl.kind)
       /\ (\A i \in 1..Len(cl.seen) : cl.seen[i] \in Failures(cl.kind))
            => cl.requests = cl.max_tries

C17_Witness ==
  /\ cl.pc = "returned"
  /\ cl.kind = "weaver"
  /\ cl.max_tries = 3
  /\ cl.seen = <<"rate_limit", "api", "other">>
  /\ cl.content = ServerError("weaver")

\* C18: an authentication error is not retried in any of the clients: it is
\* the last request of the call, which returns the error string.
C18_AuthNotRetried ==
  \A i \in 1..Len(cl.seen) :
    cl.seen[i] = "auth" =>
      /\ i = Len(cl.seen)
      /\ cl.pc = "returned"
      /\ cl.requests = i
      /\ cl.content = ServerError(cl.kind)

\* the writer after a retrieve whose key was seen before: the tool was not
\* run, the observation is the first run's string with the directive, the
\* key's counter went up and no tool execution is awaited
RepeatHandled(a, b, key, native) ==
  /\ b.runs = a.runs
  /\ b.tool_call_cache = a.tool_call_cache
  /\ <<"retrieve", key>> \in DOMAIN a.first_results
  /\ b.last_observation =
       (IF native THEN Lit("Evidence already retrieved. Here it is again:\n\n")
        ELSE Lit("Evidence already retrieved:\n\n"))
         \o a.first_results[<<"retrieve", key>>]
         \o Lit("\n\nYou MUST now proceed to <write> the section.")
  /\ key \in DOMAIN b.retrieve_repeat_counts
  /\ b.retrieve_repeat_counts[key] = Get(a.retrieve_repeat_counts, key, 1) + 1
  /\ b.pc \notin {"await_tool"}

\* the number of retrieves of a key the writer has handled
Retrieves(w, key) ==
  IF key \in w.seen_retrieve_keys THEN Get(w.retrieve_repeat_counts, key, 1) ELSE 0

\* C19: a retrieve of the writer whose arguments have the canonical JSON of
\* an earlier retrieve of the run does not run the tool again: the
\* observation becomes the first run's evidence followed by the directive to
\* write, the key's repeat counter goes up by one, and however often a key
\* is retrieved (six times in a row included) the tool ran once for it
C19_RepeatedRetrieve ==
  ww.kind = "writer" =>
    /\ \A k \in DOMAIN ww.runs : k[1] = "retrieve" => ww.runs[k] <= 1
    /\ \A key \in ww.seen_retrieve_keys :
         Retrieves(ww, key) >= 6 /\ ww.pc # "await_tool" =>
           Get(ww.runs, <<"retrieve", key>>, 0) = 1
    /\ ww.pc = "await_llm" =>
         \A resp \in WeaverResponses(ww.kind, ww.xml) :
           LET parsed == WeaverParseOutput(ww.kind, resp.content)
               call == parsed.action_content
           IN  (ww.xml \/ resp.tool_calls = <<>>)
                 /\ parsed.action_type = "tool_call"
                 /\ call.ok /\ call.name = "retrieve"
                 /\ RetrieveKey(call) \in ww.seen_retrieve_keys
               => RepeatHandled(ww, WeaverResponse(ww, resp), RetrieveKey(call), FALSE)
    /\ ww.pc = "fc_loop" =>
         LET call == Head(ww.pending)
         IN  call.ok /\ call.name = "retrieve"
               /\ RetrieveKey(call) \in ww.seen_retrieve_keys
             => \A out \in WeaverOutcomes :
                  RepeatHandled(ww, NativeCallDone(ww, out), RetrieveKey(call), TRUE)

\* six retrieves of one key in six rounds of the textual protocol, the
\* last of them answered from the first run's evidence
C19_Witness ==
  /\ ww.kind = "writer" /\ ww.xml
  /\ \E key \in ww.seen_retrieve_keys :
       /\ Retrieves(ww, key) = 6
       /\ ww.runs[<<"retrieve", key>>] = 1
       /\ ww.last_observation =
            AlreadyRetrieved(FALSE, ww.first_results[<<"retrieve", key>>])

\* the strings tool.call returns
ToolTexts == {out.text : out \in {o \in WeaverOutcomes : ~o.raises}}

\* the keys of the dispatches made so far whose tool is cacheable
CacheableKeys(w) == {k \in DOMAIN w.dispatches : k[1] \in w.cacheable_tools}

\* tools outside cacheable_tools are run by every dispatch and have no
\* cache entry
NonCacheableRun(w) ==
  /\ \A k \in DOMAIN w.dispatches \ CacheableKeys(w) :
       Get(w.runs, k, 0) = w.dispatches[k]
  /\ \A k \in DOMAIN w.tool_call_cache : k[1] \in w.cacheable_tools

\* the call about to be dispatched, if the agent is at a dispatch
AtDispatch(w) ==
  \/ w.pc = "await_tool"
  \/ /\ w.pc = "fc_loop"
     /\ ~(IsRetrieve(w, Head(w.pending))
            /\ RetrieveKey(Head(w.pending)) \in w.seen_retrieve_keys)

DispatchedCall(w) == IF w.pc = "await_tool" THEN w.call ELSE Head(w.pending)

\* C20 as stated: all dispatches of a cacheable tool with one canonical
\* argument JSON return the same string and the tool is run for the first
\* of them only; other tools are run by every dispatch and are not cached
C20_CachedDispatch ==
  /\ \A k \in CacheableKeys(ww) :
       Get(ww.runs, k, 0) <= 1 /\ Cardinality(ww.returned[k]) <= 1
  /\ NonCacheableRun(ww)

\* C20, amended: a cache entry is the string of a run that did not raise;
\* once a key has an entry every dispatch of the key returns the entry and
\* does not run the tool, so at most one string of the tool is ever
\* returned for a key; a run that raises adds no entry, and the next
\* dispatch of the key runs the tool again; other tools are run by every
\* dispatch and are not cached
C20_CachedAfterSuccess ==
  /\ \A k \in CacheableKeys(ww) :
       /\ Cardinality(ww.returned[k] \cap ToolTexts) <= 1
       /\ k \in DOMAIN ww.tool_call_cache =>
            ww.tool_call_cache[k] \in ww.returned[k] \cap ToolTexts
       /\ k \notin DOMAIN ww.tool_call_cache =>
            ww.returned[k] \cap ToolTexts = {} /\ ww.runs[k] = ww.dispatches[k]
  /\ NonCacheableRun(ww)
  /\ AtDispatch(ww) =>
       LET call == DispatchedCall(ww)
           key == CacheKey(call.name, FixToolArgs(call.name, call.args))
       IN  call.ok /\ call.name \in ww.tool_map /\ call.name \in ww.cacheable_tools
           => \A out \in WeaverOutcomes :
                LET d == Dispatch(ww, ww.pc = "await_tool", call, out)
                IN  IF key \in DOMAIN ww.tool_call_cache
                    THEN /\ d.result = ww.tool_call_cache[key]
                         /\ d.w.runs = ww.runs
                         /\ d.w.tool_call_cache = ww.tool_call_cache
                    ELSE /\ d.w.runs[key] = Get(ww.runs, key, 0) + 1
                         /\ out.raises => d.w.tool_call_cache = ww.tool_call_cache
                         /\ ~out.raises => /\ d.result = out.text
                                            /\ d.w.tool_call_cache[key] = out.text

\* a cacheable tool failed, was run again with success, and a third
\* dispatch of the key was answered from the cache
C20_Witness ==
  \E k \in CacheableKeys(ww) :
    /\ k \in DOMAIN ww.tool_call_cache
    /\ ww.runs[k] = 2
    /\ ww.dispatches[k] >= 3
    /\ Cardinality(ww.returned[k]) = 2
    /\ ww.last_observation = ww.tool_call_cache[k]

\* C21: the tool-call cache is empty when a run() of a planner or a writer
\* starts, so that no string cached by an earlier run of the agent object
\* can be returned by a later one
C21_CacheEmptyAtRunStart ==
  ww.pc = "await_llm" /\ ww.i = 0 => ww.tool_call_cache = EmptyDict

\* C22: the IDs of the bank are id_1, id_2, ..., id_N in the order of
\* insertion, and a step of the run leaves every entry the bank holds
\* where and as it is
C22_BankAppendOnly ==
  /\ [](\A i \in 1..Len(ww.memory_bank) : ww.memory_bank[i].id = IdName(i))
  /\ [][/\ Len(ww'.memory_bank) >= Len(ww.memory_bank)
         /\ SubSeq(ww'.memory_bank, 1, Len(ww.memory_bank)) = ww.memory_bank]_vars

\* the planner's tools have added evidence in more than one call
C22_Witness ==
  /\ wa.pc = "planner"
  /\ Len(ww.memory_bank) >= 3
  /\ Cardinality(DOMAIN ww.runs) >= 2

\* the number of places of text where the symbols of part stand in a row
Occurrences(text, part) ==
  Cardinality({i \in 1..(Len(text) - Len(part) + 1) :
                 SubSeq(text, i, i + Len(part) - 1) = part})

\* the contents the bank holds under an ID
ContentsOf(bank, id) == {bank[i].content : i \in {j \in 1..Len(bank) : bank[j].id = id}}

\* C23: a retrieve of the writer with a list of citation IDs does not fail
\* and leaves the bank as it is; its result holds the content of every ID
\* of the list that the bank knows and exactly one "not found" line for
\* every ID that it does not know
C23_RetrieveSucceeds ==
  wa.pc = "writer" /\ AtDispatch(ww) =>
    LET call == DispatchedCall(ww)
        ids == CitationIds(call.args)
    IN  call.ok /\ call.name = "retrieve" =>
          \A out \in OutcomesOf(call) :
            LET d == Dispatch(ww, ww.pc = "await_tool", call, out)
            IN  /\ ~out.raises
                /\ d.w.memory_bank = ww.memory_bank
                /\ Occurrences(d.result, <<"Error: ">>) = 0
                /\ \A n \in 1..Len(ids) :
                     IF ContentsOf(ww.memory_bank, ids[n]) = {}
                     THEN /\ Occurrences(d.result, <<"Citation ID not found: ", ids[n]>>) = 1
                          /\ Occurrences(d.result, <<"id='", ids[n]>>) = 0
                     ELSE /\ \A c \in ContentsOf(ww.memory_bank, ids[n]) :
                               Occurrences(d.result, <<"id='", ids[n], "' ", c>>) = 1
                          /\ Occurrences(d.result, <<"Citation ID not found: ", ids[n]>>) = 0

\* the writer has retrieved an ID the bank holds together with one it does
\* not hold
C23_Witness ==
  /\ wa.pc = "writer"
  /\ Len(ww.memory_bank) >= 2
  /\ ww.last_observation = BankRetrieve(ww.memory_bank, <<"id_2", "id_9">>)
  /\ Occurrences(ww.last_observation, <<"Citation ID not found: ", "id_9">>) = 1

\* C24: the writer works on the bank the planner has filled; the writer
\* phase starts only from a planner whose run() has returned, and no step
\* of the writer phase changes the bank
C24_BankWrittenByPlannerOnly ==
  [][/\ wa.pc = "writer" => ww'.memory_bank = ww.memory_bank
     /\ wa.pc # "writer" /\ wa'.pc = "writer" =>
          /\ wa.pc = "planner" /\ ww.kind = "planner" /\ ww.pc = "returned"
          /\ ww'.kind = "writer"
          /\ ww'.memory_bank = ww.memory_bank]_vars

\* the writer has run its retrieve tool on a bank the planner has filled
C24_Witness ==
  /\ wa.pc = "writer"
  /\ Len(ww.memory_bank) >= 2
  /\ ww.runs # EmptyDict
  /\ ww.pc = "await_llm"

\* the samples of the run whose run() raised
FailedSamples == {i \in 1..tts.n : tts.results[i].kind = "exception"}

\* C25: when run() of the test-time-scaling agent is over and samples have
\* raised, run() has returned a bundle and has not raised, every other
\* sample has run to completion, and the bundle reports an outcome for each
\* of the N samples, the failed ones included
C25_SampleFailuresIsolated ==
  tts.pc \in {"returned", "raised"} /\ FailedSamples # {} =>
    /\ tts.pc = "returned"
    /\ \A i \in 1..tts.n : tts.results[i].kind \in {"dict", "exception"}
    /\ Len(tts.bundle.parallel_runs) = tts.n

\* C26: when run() is over and at least one sample returned its bundle, the
\* synthesis LLM was invoked exactly once, with exactly the bundles of the
\* successful samples and no tools, and run() has returned a bundle whose
\* final answer is the synthesizer's non-empty text: it has not failed
C26_SynthesisOnce ==
  tts.pc \in {"returned", "raised"} /\ ValidResults(tts.results) # <<>> =>
    /\ Len(tts.synthesis_calls) = 1
    /\ tts.synthesis_calls[1].inputs = ValidResults(tts.results)
    /\ tts.synthesis_calls[1].tools = <<>>
    /\ tts.pc = "returned"
    /\ tts.bundle.final_synthesized_answer # ""

\* C27: when the planner's run() has returned, it has made at most
\* MAX_LLM_CALL_PER_RUN rounds and the outline it returns is the content of
\* the most recent write_outline block the model sent in this run (the
\* initial sentinel if it sent none), also when the last response holds
\* both a write_outline block and a terminate tag
C27_ReturnedOutline ==
  ww.kind = "planner" /\ ww.pc = "returned" =>
    /\ ww.i <= ww.max_calls
    /\ ww.result = ww.emitted

\* C28: when the task of a submitted question starts its turn, the history
\* block holds question and answer of the completed turns that precede the
\* new turn, the 5 most recent of them when there are more, in their
\* order, and nothing else; the new turn and the agent loop get exactly the
\* submitted question
C28_HistoryBlock ==
  [][\A t \in Tasks :
       task[t].pc = "scheduled" /\ task'[t].pc # "scheduled" =>
         LET turns == session.turns
             done == {i \in 1..Len(turns) : turns[i].status = "completed"}
             recent == {i \in done : Cardinality({j \in done : j > i}) < 5}
             h == task'[t].history
         IN  /\ Len(h) = Cardinality(recent)
             /\ \A i \in recent :
                  h[Cardinality({j \in recent : j <= i})] =
                    [question |-> turns[i].question, answer |-> turns[i].answer]
             /\ Len(session'.turns) = Len(turns) + 1
             /\ session'.turns[Len(turns) + 1].question = <<Questions[t]>>
             /\ ag'[t].question = <<Questions[t]>>]_vars

\* the second question of a session with seven earlier turns, the fifth
\* of them left running: its history holds five turns, the first question
\* of the session last, and the two oldest completed turns are left out
C28_Witness ==
  /\ Len(task[2].history) = 5
  /\ task[2].history[1].question = <<"E3">>
  /\ task[2].history[5].question = <<Questions[1]>>
  /\ session.turns[5].status = "running"
  /\ ag[2].question = <<Questions[2]>>

\* the rank of a turn status on the way pending, running, completed/failed
StatusRank(status) ==
  CASE status = "pending" -> 0
    [] status = "running" -> 1
    [] OTHER -> 2

\* C29: in every step, for every interleaving of submits and loop
\* completions, no turn of the session moves back in status, and a turn
\* that is completed or failed keeps its status, answer, result and error
C29_StatusMonotone ==
  [][\A i \in 1..Len(session.turns) :
       /\ i <= Len(session'.turns)
       /\ StatusRank(session'.turns[i].status) >= StatusRank(session.turns[i].status)
       /\ session.turns[i].status \in {"completed", "failed"} =>
            /\ session'.turns[i].status = session.turns[i].status
            /\ session'.turns[i].answer = session.turns[i].answer
            /\ session'.turns[i].result = session.turns[i].result
            /\ session'.turns[i].error = session.turns[i].error]_vars

\* the events of turn k the subscriber has been sent, in the order sent
Received(k) ==
  SelectSeq(sse.out, LAMBDA e : e.turn = k /\ e.type # "turn_finished")

\* C30: what the subscriber of the session's stream has been sent of a
\* turn is a prefix of the turn's event log (log order, each event once, no
\* gap), and a turn_finished event is sent once, as the last event of the
\* stream, for a turn that is completed or failed and whose events were
\* all sent before it
C30_StreamInLogOrder ==
  /\ \A k \in 1..Len(session.turns) :
       LET events == session.turns[k].events
           got == Received(k)
       IN  /\ Len(got) <= Len(events)
           /\ \A j \in 1..Len(got) : got[j].type = events[j].type
  /\ \A i \in 1..Len(sse.out) :
       sse.out[i].type = "turn_finished" =>
         /\ i = Len(sse.out)
         /\ sse.pc = "ended"
         /\ session.turns[sse.out[i].turn].status \in {"completed", "failed"}
         /\ Len(Received(sse.out[i].turn)) =
              Len(session.turns[sse.out[i].turn].events)

RECURSIVE CountType(_, _)
\* the events of a type in an event log
CountType(events, type) ==
  IF events = <<>> THEN 0
  ELSE (IF Head(events).type = type THEN 1 ELSE 0) + CountType(Tail(events), type)

RECURSIVE Completions(_)
\* how often a loop of the session has returned and finished a turn: every
\* return adds one summary event before finish_turn
Completions(turns) ==
  IF turns = <<>> THEN 0
  ELSE CountType(Head(turns).events, "summary") + Completions(Tail(turns))

Bodies(text, tag) == {text[i].body : i \in {j \in 1..Len(text) : text[j].tag = tag}}

\* C32: parse_output of the planner and of the writer returns terminate for
\* a response with a terminate tag; for a response without one, tool_call
\* with the body of a tool_call block when it has no write block, the write
\* action with the stripped body of a write block when it has no tool_call
\* block, and error with a diagnostic when it has neither; plan is the
\* stripped body of a plan block, empty when there is none
C32_ActionByTag ==
  pr.pc = "returned" /\ pr.kind \in {"planner", "writer"} =>
    LET tool == Bodies(pr.text, "tool_call")
        write == Bodies(pr.text, WriteTag(pr.kind))
        term == Bodies(pr.text, "terminate")
        plan == Bodies(pr.text, "plan")
        p == pr.parsed
    IN  /\ term # {} => p.action_type = "terminate"
        /\ term = {} /\ tool # {} /\ write = {} =>
             p.action_type = "tool_call" /\ p.action_content \in tool
        /\ term = {} /\ tool = {} /\ write # {} =>
             /\ p.action_type = WriteTag(pr.kind)
             /\ \E b \in write : p.action_content = Strip(b)
        /\ term = {} /\ tool = {} /\ write = {} =>
             p.action_type = "error" /\ p.action_content # <<>>
        /\ IF plan = {} THEN p.plan = <<>> ELSE \E b \in plan : p.plan = Strip(b)

\* a planner's response of a plan and an outline, both padded with blanks
C32_Witness ==
  /\ pr.pc = "returned"
  /\ pr.kind = "planner"
  /\ Len(pr.text) = 2
  /\ pr.parsed.action_type = "write_outline"
  /\ pr.parsed.action_content = <<"S">>
  /\ pr.parsed.plan = <<"q">>

\* the occurrences of a block in a response that are not empty (a tool call
\* of a planner or a writer is not)
Occurs(p, tag) ==
  {i \in 1..Len(p.text) :
     /\ p.text[i].tag = tag
     /\ (p.kind # "researcher" /\ tag = "tool_call") \/ Strip(p.text[i].body) # <<>>}

\* the body of the last of them, as the parser returns a body
LastOccurrence(p, tag) ==
  LET i == CHOOSE i \in Occurs(p, tag) : \A j \in Occurs(p, tag) : j <= i
  IN  IF p.kind # "researcher" /\ tag = "tool_call" THEN p.text[i].body
      ELSE Strip(p.text[i].body)

\* C33: in the parser of the iterative agent and in those of the planner
\* and the writer, a block that occurs several times in a response is
\* returned with the body of its last non-empty occurrence
C33_LastOccurrenceWins ==
  pr.pc = "returned" =>
    IF pr.kind = "researcher"
    THEN /\ \A tag \in {"plan", "report", "tool_call", "answer"} :
              Occurs(pr, tag) # {} => pr.output[tag] = LastOccurrence(pr, tag)
         /\ Occurs(pr, "terminate") # {} =>
              pr.output.terminate_reason = LastOccurrence(pr, "terminate")
    ELSE /\ Occurs(pr, "plan") # {} => pr.parsed.plan = LastOccurrence(pr, "plan")
         /\ pr.parsed.action_type \in {"tool_call", WriteTag(pr.kind)}
              /\ Occurs(pr, pr.parsed.action_type) # {} =>
              pr.parsed.action_content = LastOccurrence(pr, pr.parsed.action_type)

\* the observation ends with the instruction to write now
HasHint(observation) ==
  /\ observation # <<>>
  /\ observation[Len(observation)] \in
       {"\nInstruction: You MUST output <write> now.",
        "\nInstruction: You have gathered sufficient evidence. You MUST output <write> with a well-structured section now."}

\* C34: between the rounds of the writer loop the observation carries the
\* hint exactly when the count of steps without a write is above 6 (not
\* while it is 6 or less), and after a write the count is 0
C34_HintAboveThreshold ==
  ww.kind = "writer" /\ ww.pc \in {"await_llm", "returned"} /\ ww.i > 0 =>
    /\ HasHint(ww.last_observation) <=> ww.steps_since_last_write > 6
    /\ Head(ww.last_observation) = "Section written successfully:\n" =>
         ww.steps_since_last_write = 0

\* the positions of agent a's log that hold an event of the given type and
\* round
EventsOf(a, type, r) ==
  {i \in 1..Len(a.log) : a.log[i].type = type /\ a.log[i].round = r}

LoopEvents(turn) == SelectSeq(turn.events, LAMBDA ev : ev.type # "summary")

\* C36: the events emitted by the loop of a question are in the log of the
\* turn created for that question and in no other, and when the loop has
\* ended that turn holds its answer and is completed, also when a second
\* question is submitted while the first loop runs
C36_EventsToOwnTurn ==
  \A t \in Tasks :
    task[t].pc \in {"running", "persist", "writing", "finished"} =>
      /\ t <= Len(session.turns)
      /\ session.turns[t].question = task[t].question
      /\ LoopEvents(session.turns[t]) = ag[t].log
      /\ ag[t].pc = "done" =>
           /\ session.turns[t].status = "completed"
           /\ session.turns[t].answer = ag[t].result.prediction

\* C37: when the loops of all the questions submitted to the session have
\* ended and their tasks have called finish_turn and persisted, no turn of
\* the session is left running, whatever the interleaving of the questions
C37_NoRunningAfterLoopEnd ==
  (\A t \in Tasks : task[t].pc = "finished") => RunningTurns(session) = {}

\* C38: an agent constructed with a function_list executes no tool outside
\* that list
C38_OnlyListedTools ==
  \A i \in 1..Len(ag[1].executed) :
    ag[1].executed[i].tool \in ag[1].function_list

\* the agent waits for the answer to a forced-finalization call
AwaitsForced(a) == a.pc \in {"await_forced", "await_token_forced"}

\* C39: a run makes at most R_max + 1 calls to call_server: at most one for
\* each round and at most one forced call (after a response without action
\* or after the token limit, never both), and the forced call is the last
\* call of the run
C39_CallBudget ==
  /\ [](/\ ag[1].round_num <= ag[1].rmax
        /\ ag[1].llm_calls <= ag[1].round_num + 1
        /\ ag[1].llm_calls <= ag[1].rmax + 1
        /\ ag[1].llm_calls = ag[1].round_num + 1 =>
             AwaitsForced(ag[1]) \/ ag[1].pc = "done"
        /\ AwaitsForced(ag[1]) => ag[1].llm_calls = ag[1].round_num + 1)
  /\ [][/\ ag'[1].llm_calls \in {ag[1].llm_calls, ag[1].llm_calls + 1}
        /\ AwaitsForced(ag[1]) /\ ag'[1] # ag[1] =>
             /\ ag'[1].pc = "done"
             /\ ag'[1].llm_calls = ag[1].llm_calls
        /\ AwaitsForced(ag'[1]) /\ ~AwaitsForced(ag[1]) =>
             /\ ag'[1].llm_calls = ag[1].llm_calls + 1
             /\ ag'[1].round_num = ag[1].round_num]_vars

\* a finished run whose first round gave no action and whose forced call,
\* the second and last call of the run, gave the answer
C39_Witness ==
  /\ ag[1].pc = "done"
  /\ ag[1].round_num = 1
  /\ ag[1].llm_calls = 2
  /\ ag[1].termination = "answer (forced)"

\* C40: WebWeaverAgent.run ends by returning a bundle. When the planner phase
\* fails or times out the writer is never started and the bundle holds an
\* error and an empty final_report; when the writer phase fails the bundle
\* holds an error and an empty final_report; only when both phases succeed
\* does it hold final_outline, final_report and memory_bank_size.
C40_BundleByOutcome ==
  /\ wa.pc = "planner" => ww.kind = "planner"
  /\ wa.pc = "writer" => ww.kind = "writer"
  /\ ww.pc = "cancelled" => wa.pc = "returned"
  /\ wa.pc = "returned" =>
       IF ww.pc = "cancelled"
       THEN /\ wa.result.keys = {"question", "final_report", "error"}
            /\ wa.result.final_report = <<>>
            /\ wa.result.error = <<ww.kind, " phase error: ", "e">>
            /\ ww.kind = "planner" => wa.final_outline = <<>>
       ELSE /\ ww.kind = "writer"
            /\ ww.pc = "returned"
            /\ "error" \notin wa.result.keys
            /\ {"final_outline", "final_report", "memory_bank_size"}
                 \subseteq wa.result.keys
            /\ wa.result.final_outline = wa.final_outline
            /\ wa.result.final_report = ww.result
            /\ wa.result.memory_bank_size = Len(ww.memory_bank)

\* the planner returned an outline and gathered evidence, then the writer
\* phase failed: the bundle holds the error and no report
C40_Witness ==
  /\ wa.pc = "returned"
  /\ ww.kind = "writer"
  /\ ww.pc = "cancelled"
  /\ wa.final_outline # <<>>
  /\ Len(ww.memory_bank) > 0
  /\ wa.result.error = <<"writer", " phase error: ", "e">>
  /\ wa.result.final_report = <<>>

====
